---- MODULE Spec2Model ----
(***************************************************************************)
(* Model of the mobile mining engine core (toole-brendan/shell, Android    *)
(* native code): the power policy controller (AndroidPowerManager), the    *)
(* thermal monitor (AndroidThermalManager), the bounded histories and the  *)
(* NPU dispatcher (NPUIntegration).                                        *)
(*                                                                         *)
(* Temperatures are integers in milli-degrees Celsius: the code obtains    *)
(* every float temperature as (int)/10.0f or (int)/1000.0f and only        *)
(* compares it against whole-degree thresholds, so the comparison of the   *)
(* floats agrees with the comparison of the milli-degree integers.         *)
(***************************************************************************)
EXTENDS Integers, Sequences, FiniteSets, TLC

VARIABLES
    \* AndroidPowerManager
    batteryLevel_, isCharging_, pm_currentTemp_, canMine_,
    pmLastOp, pmPrevOp,
    \* AndroidThermalManager
    tm_currentTemp_, maxTemp_, throttleTemp_, thermalState_,
    tempMutex_, temperatureHistory_, thermalZones_,
    monitoring_, monitoringThread_, task, caller, crashed,
    tmPolls, tmLastChange, stopQuiescent,
    \* ThermalVerification history, and the clock of the sequential polling run
    thermalHistory_, hPolls, hProofs, hPhase,
    \* NPUIntegration as owned by MobileXMiner
    npu_, primaryAdapter_, fallbackAdapter_, npuAvailable_, usesFallback_,
    primaryOperations, fallbackOperations, aggregateOperations,
    npuLastExec, npuPlatformFailed, npuOps,
    \* mining threads inside NPUIntegration::executeConvolution
    ntPc, execution_, ntCalls, ntCrashed,
    \* HeterogeneousScheduler
    topology_, activeCores_, activeCoresSize, currentIntensity_, schedInits, schedLastOp,
    \* MobileXMiner
    arm64_, randomxVM_, randomxCache_, mining_, npuEnabled_, hashesCompleted_,
    mxPc, mxCall, mxGolden, mxOps, startTime_,
    \* ThermalVerification: proof generation, validation and cheat detection
    currentTemperature_, tolerancePercent_, baseFrequency_,
    tvSha, tvIssued, tvLast, tvOps, tvDetect,
    \* the thread calling runOnBigCores/runOnLittleCores
    threadAffinity, runLast,
    \* AndroidMobileXMiner behind the JNI handle, and the last JNI call
    liveMiner, is_mining_, current_intensity_, engineActiveCores, npu_available_,
    jniLast, jniCalls,
    \* the thread inside updatePowerState() and the permission changes logged
    pmPc, wasAllowed, pmLog,
    \* the last input hashed by both paths of vectorHash, and the two results
    vhData, vhNeon, vhScalar,
    \* threads calling computeMobileXHash on one miner, and the NPU steps run
    mtPc, npuSteps

pmVars == <<batteryLevel_, isCharging_, pm_currentTemp_, canMine_, pmLastOp, pmPrevOp>>
tmVars == <<tm_currentTemp_, maxTemp_, throttleTemp_, thermalState_,
            tempMutex_, temperatureHistory_, thermalZones_,
            monitoring_, monitoringThread_, task, caller, crashed,
            tmPolls, tmLastChange, stopQuiescent>>
hVars == <<thermalHistory_, hPolls, hProofs, hPhase>>
npuVars == <<npu_, primaryAdapter_, fallbackAdapter_, npuAvailable_, usesFallback_,
             primaryOperations, fallbackOperations, aggregateOperations,
             npuLastExec, npuPlatformFailed, npuOps>>
ntVars == <<ntPc, execution_, ntCalls, ntCrashed>>
\* the state of the components modelled further below
hsVars == <<topology_, activeCores_, activeCoresSize, currentIntensity_, schedInits,
            schedLastOp>>
\* what MobileXMiner::initialize() and close() create and destroy besides the NPU engine
engineVars == <<arm64_, randomxVM_, randomxCache_>>
\* the rest of the miner and the hash call in progress
mxVars == <<mining_, npuEnabled_, hashesCompleted_, mxPc, mxCall, mxGolden, mxOps,
            startTime_>>
tvVars == <<currentTemperature_, tolerancePercent_, baseFrequency_,
            tvSha, tvIssued, tvLast, tvOps, tvDetect>>
runVars == <<threadAffinity, runLast>>
jniVars == <<liveMiner, is_mining_, current_intensity_, engineActiveCores, npu_available_,
             jniLast, jniCalls>>
permVars == <<pmPc, wasAllowed, pmLog>>
hashVars == <<vhData, vhNeon, vhScalar>>
mtVars == <<mtPc, npuSteps>>
lateVars == <<ntVars, hsVars, engineVars, mxVars, tvVars, runVars, jniVars, permVars, hashVars, mtVars>>
vars == <<pmVars, tmVars, hVars, npuVars, lateVars>>

----------------------------------------------------------------------------
(* Shared helpers *)

\* std::clamp(v, lo, hi)
Clamp(v, lo, hi) == IF v < lo THEN lo ELSE IF v > hi THEN hi ELSE v

\* A sysfs file: unreadable (open or parse failed), or holding an integer.
Unreadable == [ok |-> FALSE, v |-> 0]
File(v) == [ok |-> TRUE, v |-> v]

\* Index of the first readable file of a list of files, 0 when there is none.
FirstReadable(files) ==
    IF \E i \in 1..Len(files) : files[i].ok
    THEN CHOOSE i \in 1..Len(files) :
            files[i].ok /\ \A j \in 1..(i - 1) : ~files[j].ok
    ELSE 0

\* MiningIntensity (enum class, stable wire values)
DISABLED == 0
LIGHT == 1
MEDIUM == 2
FULL == 3

----------------------------------------------------------------------------
(* AndroidPowerManager *)

\* Contents the battery capacity files can have: primary path first, then the
\* three alternative paths.
BatteryRawValues == {-3, 0, 19, 20, 79, 80, 85, 86, 95, 96, 100, 250}
BatteryFiles ==
    {<<File(v), Unreadable, Unreadable, Unreadable>> : v \in BatteryRawValues}
    \cup {<<Unreadable, File(90), Unreadable, File(10)>>,
          <<Unreadable, Unreadable, Unreadable, File(97)>>,
          <<Unreadable, Unreadable, Unreadable, Unreadable>>}

\* Battery status string, then the ac / usb / wireless "online" files.
StatusUnreadable == [ok |-> FALSE, s |-> ""]
Status(s) == [ok |-> TRUE, s |-> s]
ChargingFiles ==
    {[status |-> Status(s), online |-> <<Unreadable, Unreadable, Unreadable>>] :
        s \in {"Charging", "Full", "Discharging"}}
    \cup {[status |-> Status("Discharging"), online |-> <<File(1), File(1), File(1)>>],
          [status |-> StatusUnreadable, online |-> <<File(0), Unreadable, File(1)>>],
          [status |-> StatusUnreadable, online |-> <<File(0), File(0), Unreadable>>],
          [status |-> StatusUnreadable, online |-> <<Unreadable, Unreadable, Unreadable>>]}

\* Battery temperature file (tenths of a degree), then three thermal zone
\* files (milli-degrees).
BatteryTempTenths == {-50, 399, 400, 450, 451, 499, 500, 501, 1200}
TempFiles ==
    {[battery |-> File(t), zones |-> <<Unreadable, Unreadable, Unreadable>>] :
        t \in BatteryTempTenths}
    \cup {[battery |-> Unreadable, zones |-> <<File(z), Unreadable, File(30000)>>] :
            z \in {39999, 45001, 49999, 50000}}
    \cup {[battery |-> Unreadable, zones |-> <<Unreadable, Unreadable, File(47000)>>],
          [battery |-> Unreadable, zones |-> <<Unreadable, Unreadable, Unreadable>>]}

readBatteryLevel(files) ==
    LET i == FirstReadable(files)
    IN IF i = 0 THEN 85 ELSE Clamp(files[i].v, 0, 100)

readChargingState(f) ==
    IF f.status.ok
    THEN f.status.s \in {"Charging", "Full"}
    ELSE \E i \in 1..Len(f.online) : f.online[i].ok /\ f.online[i].v = 1

\* result in milli-degrees
readTemperature(f) ==
    IF f.battery.ok
    THEN f.battery.v * 100
    ELSE LET i == FirstReadable(f.zones)
         IN IF i = 0 THEN 35000 ELSE f.zones[i].v

\* updateMiningPermission() with the battery threshold off by one
updateMiningPermission_strictBattery(battery, charging, temp) ==
    charging /\ battery > 80 /\ temp < 50000

\* updateMiningPermission() with the temperature limit included
updateMiningPermission_inclusiveTemp(battery, charging, temp) ==
    charging /\ battery >= 80 /\ temp <= 50000

\* updateMiningPermission() that keeps a permission already granted
updateMiningPermission_sticky(battery, charging, temp) ==
    canMine_ \/ (charging /\ battery >= 80 /\ temp < 50000)

\* updateMiningPermission(): the value assigned to canMine_
updateMiningPermission(battery, charging, temp) ==
    charging /\ battery >= 80 /\ temp < 50000

canStartMining == canMine_

shouldStopMining == ~canMine_ \/ batteryLevel_ < 20 \/ pm_currentTemp_ > 50000

\* determineOptimalIntensity() with the FULL battery threshold off by one
determineOptimalIntensity_fullAt95 ==
    IF ~canMine_ THEN DISABLED
    ELSE IF ~isCharging_ THEN DISABLED
    ELSE IF batteryLevel_ < 80 THEN DISABLED
    ELSE IF pm_currentTemp_ > 45000 THEN LIGHT
    ELSE IF batteryLevel_ >= 95 /\ pm_currentTemp_ < 40000 THEN FULL
    ELSE IF batteryLevel_ > 85 THEN MEDIUM
    ELSE LIGHT

\* determineOptimalIntensity() relying on the permission flag alone
determineOptimalIntensity_trustsPermission ==
    IF ~canMine_ THEN DISABLED
    ELSE IF pm_currentTemp_ > 45000 THEN LIGHT
    ELSE IF batteryLevel_ > 95 /\ pm_currentTemp_ < 40000 THEN FULL
    ELSE IF batteryLevel_ > 85 THEN MEDIUM
    ELSE LIGHT

determineOptimalIntensity ==
    IF ~canMine_ THEN DISABLED
    ELSE IF ~isCharging_ THEN DISABLED
    ELSE IF batteryLevel_ < 80 THEN DISABLED
    ELSE IF pm_currentTemp_ > 45000 THEN LIGHT
    ELSE IF batteryLevel_ > 95 /\ pm_currentTemp_ < 40000 THEN FULL
    ELSE IF batteryLevel_ > 85 THEN MEDIUM
    ELSE LIGHT

\* updatePowerState(): three reads, then updateMiningPermission()
\* what the three reads can return over all file contents
BatteryReadings == { readBatteryLevel(bf) : bf \in BatteryFiles }
ChargingReadings == { readChargingState(cf) : cf \in ChargingFiles }
TemperatureReadings == { readTemperature(tf) : tf \in TempFiles }

updatePowerState(op) ==
    \E level \in BatteryReadings, charging \in ChargingReadings,
       temp \in TemperatureReadings :
        /\ batteryLevel_' = level
        /\ isCharging_' = charging
        /\ pm_currentTemp_' = temp
        /\ canMine_' = updateMiningPermission(level, charging, temp)
        /\ pmPrevOp' = pmLastOp
        /\ pmLastOp' = op
        /\ UNCHANGED <<tmVars, hVars, npuVars, lateVars>>

\* initialize(): updatePowerState(); return true
PmInitialize == updatePowerState("initialize")

PmUpdatePowerState == updatePowerState("updatePowerState")

setMiningAllowed ==
    \E allowed \in BOOLEAN :
        /\ canMine_' = allowed
        /\ pmPrevOp' = pmLastOp
        /\ pmLastOp' = IF allowed THEN "setMiningAllowed(true)" ELSE "setMiningAllowed(false)"
        /\ UNCHANGED <<batteryLevel_, isCharging_, pm_currentTemp_>>
        /\ UNCHANGED <<tmVars, hVars, npuVars, lateVars>>

PmInit ==
    /\ batteryLevel_ = 100
    /\ isCharging_ = FALSE
    /\ pm_currentTemp_ = 30000
    /\ canMine_ = FALSE
    /\ pmLastOp = "constructed"
    /\ pmPrevOp = "constructed"

NextPower == PmInitialize \/ PmUpdatePowerState \/ setMiningAllowed

(* updatePowerState() on the polling thread, step by step, while another
   thread calls setMiningAllowed(): canMine_ is a plain bool and no lock is
   taken. pmLog holds the "Mining permission changed: old -> new" entries. *)

MaxLogEntries == 3

\* the file contents met while the two threads run: capacity and battery
\* temperature on either side of the permission thresholds
PolledBatteryFiles ==
    {<<File(v), Unreadable, Unreadable, Unreadable>> : v \in {79, 80}}
PolledTempFiles ==
    {[battery |-> File(t), zones |-> <<Unreadable, Unreadable, Unreadable>>] :
        t \in {499, 500}}

PermFrame ==
    UNCHANGED <<pmLastOp, pmPrevOp, tmVars, hVars, npuVars, ntVars, hsVars, engineVars,
                mxVars, tvVars, runVars, jniVars, hashVars, mtVars>>

\* updatePowerState(): the three reads, and bool wasAllowed = canMine_
PermReadState ==
    /\ pmPc = "idle"
    /\ Len(pmLog) < MaxLogEntries
    /\ \E bf \in PolledBatteryFiles, tf \in PolledTempFiles :
          /\ batteryLevel_' = readBatteryLevel(bf)
          /\ pm_currentTemp_' = readTemperature(tf)
    /\ isCharging_' \in ChargingReadings
    /\ wasAllowed' = canMine_
    /\ pmPc' = "assign"
    /\ UNCHANGED <<canMine_, pmLog>>
    /\ PermFrame

\* canMine_ = isCharging_ && batteryLevel_ >= 80 && currentTemp_ < 50.0f
PermAssign ==
    /\ pmPc = "assign"
    /\ canMine_' = updateMiningPermission(batteryLevel_, isCharging_, pm_currentTemp_)
    /\ pmPc' = "compare"
    /\ UNCHANGED <<batteryLevel_, isCharging_, pm_currentTemp_, wasAllowed, pmLog>>
    /\ PermFrame

\* if (canMine_ != wasAllowed)
PermCompare ==
    /\ pmPc = "compare"
    /\ pmPc' = IF canMine_ # wasAllowed THEN "log" ELSE "idle"
    /\ UNCHANGED <<batteryLevel_, isCharging_, pm_currentTemp_, canMine_, wasAllowed, pmLog>>
    /\ PermFrame

\* LOGI("Mining permission changed: %s -> %s", wasAllowed, canMine_)
PermLog ==
    /\ pmPc = "log"
    /\ pmLog' = Append(pmLog, [old |-> wasAllowed, new |-> canMine_])
    /\ pmPc' = "idle"
    /\ UNCHANGED <<batteryLevel_, isCharging_, pm_currentTemp_, canMine_, wasAllowed>>
    /\ PermFrame

PermInit ==
    /\ pmPc = "idle"
    /\ wasAllowed = FALSE
    /\ pmLog = <<>>

NextPermission == PermReadState \/ PermAssign \/ PermCompare \/ PermLog \/ setMiningAllowed

----------------------------------------------------------------------------
(* AndroidThermalManager *)

\* ThermalState (enum class, ordered)
NORMAL == 0
THROTTLE == 1
CRITICAL == 2

\* Bounds of the thermal monitor model
MaxPolls == 2       \* updateTemperature() runs explored

\* application threads calling the public methods, and the polling threads
\* (std::thread objects) that can be alive at the same time
Callers == {"c1", "c2"}
TaskIds == {1, 2}

\* maxHistorySize of AndroidThermalManager::addToHistory and
\* MAX_HISTORY_SIZE of ThermalVerification
maxHistorySize == 1000
MAX_HISTORY_SIZE == 1000

\* push_back, then erase the oldest entries beyond the cap
addToHistory_dropsNewest(history, entry, cap) ==
    IF Len(history) >= cap THEN history ELSE Append(history, entry)

addToHistory(history, entry, cap) ==
    LET pushed == Append(history, entry)
    IN IF Len(pushed) > cap
       THEN SubSeq(pushed, (Len(pushed) - cap) + 1, Len(pushed))
       ELSE pushed

\* simulateTemperature(): 35 + 5 sin(..), a value in [30, 40] degrees
SimulatedTemperatures == {35000, 40000}

\* What the detected zone files hold at a poll: battery path (tenths of a
\* degree) or thermal zone path (milli-degrees).
Zone(isBattery, f) == [battery |-> isBattery, f |-> f]
ZoneReadings ==
    { <<Zone(FALSE, File(35000)), Zone(TRUE, File(400))>>,
      <<Zone(FALSE, File(46000)), Zone(FALSE, File(120000))>>,
      <<Zone(FALSE, Unreadable), Zone(TRUE, File(460))>>,
      <<Zone(FALSE, File(5000)), Zone(FALSE, Unreadable)>> }

ZoneTemp(z) == IF z.battery THEN z.f.v * 100 ELSE z.f.v

\* the readings that pass the sanity check 10 <= temp <= 100
SaneTemps(zones) ==
    { ZoneTemp(zones[i]) : i \in { j \in 1..Len(zones) :
        zones[j].f.ok /\ ZoneTemp(zones[j]) >= 10000 /\ ZoneTemp(zones[j]) <= 100000 } }

SetMax(S) == CHOOSE m \in S : \A x \in S : x <= m

\* readTemperatureFromSensors(): the set of values it can return
readTemperatureFromSensors(zonesDetected) ==
    IF zonesDetected
    THEN { IF SaneTemps(z) = {} THEN s ELSE SetMax(SaneTemps(z)) :
             z \in ZoneReadings, s \in SimulatedTemperatures }
    ELSE SimulatedTemperatures

\* updateThermalState() with a strict comparison against throttleTemp_
newState_strictThrottle(temp, throttle, max) ==
    IF temp >= max THEN CRITICAL
    ELSE IF temp > throttle THEN THROTTLE
    ELSE NORMAL

\* updateThermalState() with a strict comparison against maxTemp_
newState_strictMax(temp, throttle, max) ==
    IF temp > max THEN CRITICAL
    ELSE IF temp >= throttle THEN THROTTLE
    ELSE NORMAL

\* updateThermalState() comparing against throttleTemp_ first
newState_throttleFirst(temp, throttle, max) ==
    IF temp >= throttle THEN THROTTLE
    ELSE IF temp >= max THEN CRITICAL
    ELSE NORMAL

\* the state updateThermalState() computes
newState(temp, throttle, max) ==
    IF temp >= max THEN CRITICAL
    ELSE IF temp >= throttle THEN THROTTLE
    ELSE NORMAL

\* updateThermalState(): assign and log when the state changes
updateThermalState(by) ==
    LET ns == newState(tm_currentTemp_, throttleTemp_, maxTemp_)
    IN /\ thermalState_' = ns
       /\ tmLastChange' = IF ns # thermalState_
                          THEN [by |-> by, from |-> thermalState_, to |-> ns]
                          ELSE tmLastChange

IdleCaller == [pc |-> "idle", newTemp |-> 0, jt |-> 0]
NoTask == [pc |-> "none", newTemp |-> 0]

InStart(c) == caller[c].pc \in {"start_store", "start_spawn", "start_assign"}

TmFrame == UNCHANGED <<pmVars, hVars, npuVars, lateVars>>

\* -- initialize(): detectThermalZones(); updateTemperature() --------------
\* detectThermalZones() and the sensor read of updateTemperature()
TmInitialize(c) ==
    /\ ~crashed /\ caller[c].pc = "idle" /\ tmPolls < MaxPolls
    /\ \E found \in BOOLEAN :
        /\ thermalZones_' = found
        /\ \E t \in readTemperatureFromSensors(found) :
             caller' = [caller EXCEPT ![c] = [pc |-> "upd_lock", newTemp |-> t, jt |-> 0]]
    /\ tmPolls' = tmPolls + 1
    /\ UNCHANGED <<tm_currentTemp_, maxTemp_, throttleTemp_, thermalState_, tempMutex_,
                   temperatureHistory_, monitoring_, monitoringThread_, task, crashed,
                   tmLastChange, stopQuiescent>>
    /\ TmFrame

\* updateTemperature(): lock_guard(tempMutex_); currentTemp_ = newTemp
UpdLock(c) ==
    /\ ~crashed /\ caller[c].pc = "upd_lock" /\ ~tempMutex_
    /\ tempMutex_' = TRUE
    /\ tm_currentTemp_' = caller[c].newTemp
    /\ caller' = [caller EXCEPT ![c].pc = "upd_eval"]
    /\ UNCHANGED <<maxTemp_, throttleTemp_, thermalState_, temperatureHistory_, thermalZones_,
                   monitoring_, monitoringThread_, task, crashed, tmPolls, tmLastChange,
                   stopQuiescent>>
    /\ TmFrame

\* updateTemperature(): updateThermalState(); end of the lock scope
UpdEval(c) ==
    /\ ~crashed /\ caller[c].pc = "upd_eval"
    /\ updateThermalState("poll")
    /\ tempMutex_' = FALSE
    /\ caller' = [caller EXCEPT ![c].pc = "upd_push"]
    /\ UNCHANGED <<tm_currentTemp_, maxTemp_, throttleTemp_, temperatureHistory_, thermalZones_,
                   monitoring_, monitoringThread_, task, crashed, tmPolls, stopQuiescent>>
    /\ TmFrame

\* updateTemperature(): addToHistory(newTemp), one historyMutex_ section
UpdPush(c) ==
    /\ ~crashed /\ caller[c].pc = "upd_push"
    /\ temperatureHistory_' = addToHistory(temperatureHistory_, caller[c].newTemp, maxHistorySize)
    /\ caller' = [caller EXCEPT ![c] = IdleCaller]
    /\ UNCHANGED <<tm_currentTemp_, maxTemp_, throttleTemp_, thermalState_, tempMutex_,
                   thermalZones_, monitoring_, monitoringThread_, task, crashed, tmPolls,
                   tmLastChange, stopQuiescent>>
    /\ TmFrame

\* -- setTemperatureLimits(throttleTemp, maxTemp) ---------------------------
LimitChoices == {<<40000, 45000>>, <<30000, 40000>>, <<50000, 45000>>}

\* lock_guard(tempMutex_); throttleTemp_ = ..; maxTemp_ = ..
SetLimitsWrite(c) ==
    /\ ~crashed /\ caller[c].pc = "idle" /\ ~tempMutex_
    /\ \E lim \in LimitChoices :
        /\ throttleTemp_' = lim[1]
        /\ maxTemp_' = lim[2]
    /\ tempMutex_' = TRUE
    /\ caller' = [caller EXCEPT ![c].pc = "limits_eval"]
    /\ UNCHANGED <<tm_currentTemp_, thermalState_, temperatureHistory_, thermalZones_,
                   monitoring_, monitoringThread_, task, crashed, tmPolls, tmLastChange,
                   stopQuiescent>>
    /\ TmFrame

\* updateThermalState(); end of the lock scope
SetLimitsEval(c) ==
    /\ ~crashed /\ caller[c].pc = "limits_eval"
    /\ updateThermalState("limits")
    /\ tempMutex_' = FALSE
    /\ caller' = [caller EXCEPT ![c] = IdleCaller]
    /\ UNCHANGED <<tm_currentTemp_, maxTemp_, throttleTemp_, temperatureHistory_, thermalZones_,
                   monitoring_, monitoringThread_, task, crashed, tmPolls, stopQuiescent>>
    /\ TmFrame

\* -- startMonitoring() -----------------------------------------------------
\* if (monitoring_.load()) return;
StartCall(c) ==
    /\ ~crashed /\ caller[c].pc = "idle"
    /\ caller' = [caller EXCEPT ![c].pc = IF monitoring_ THEN "idle" ELSE "start_store"]
    /\ stopQuiescent' = FALSE
    /\ UNCHANGED <<tm_currentTemp_, maxTemp_, throttleTemp_, thermalState_, tempMutex_,
                   temperatureHistory_, thermalZones_, monitoring_, monitoringThread_, task,
                   crashed, tmPolls, tmLastChange>>
    /\ TmFrame

\* monitoring_.store(true)
StartStore(c) ==
    /\ ~crashed /\ caller[c].pc = "start_store"
    /\ monitoring_' = TRUE
    /\ caller' = [caller EXCEPT ![c].pc = "start_spawn"]
    /\ UNCHANGED <<tm_currentTemp_, maxTemp_, throttleTemp_, thermalState_, tempMutex_,
                   temperatureHistory_, thermalZones_, monitoringThread_, task, crashed,
                   tmPolls, tmLastChange, stopQuiescent>>
    /\ TmFrame

\* std::thread([this]{ monitoringLoop(); }): the new thread starts running
StartSpawn(c) ==
    /\ ~crashed /\ caller[c].pc = "start_spawn"
    /\ \E t \in TaskIds :
        /\ task[t].pc = "none"
        /\ \A u \in TaskIds : task[u].pc = "none" => t <= u
        /\ task' = [task EXCEPT ![t] = [pc |-> "check", newTemp |-> 0]]
        /\ caller' = [caller EXCEPT ![c] = [pc |-> "start_assign", newTemp |-> 0, jt |-> t]]
    /\ UNCHANGED <<tm_currentTemp_, maxTemp_, throttleTemp_, thermalState_, tempMutex_,
                   temperatureHistory_, thermalZones_, monitoring_, monitoringThread_, crashed,
                   tmPolls, tmLastChange, stopQuiescent>>
    /\ TmFrame

\* monitoringThread_ = std::move(thread): std::terminate() when
\* monitoringThread_ is still joinable
StartAssign(c) ==
    /\ ~crashed /\ caller[c].pc = "start_assign"
    /\ IF monitoringThread_ # 0
       THEN /\ crashed' = TRUE
            /\ UNCHANGED <<monitoringThread_, caller>>
       ELSE /\ monitoringThread_' = caller[c].jt
            /\ caller' = [caller EXCEPT ![c] = IdleCaller]
            /\ UNCHANGED crashed
    /\ UNCHANGED <<tm_currentTemp_, maxTemp_, throttleTemp_, thermalState_, tempMutex_,
                   temperatureHistory_, thermalZones_, monitoring_, task, tmPolls,
                   tmLastChange, stopQuiescent>>
    /\ TmFrame

\* -- stopMonitoring() ------------------------------------------------------
\* a stopMonitoring() call returns; no startMonitoring() call is in progress
StopReturns(c) == stopQuiescent' = (\A d \in Callers : ~InStart(d))

\* if (!monitoring_.load()) return;
StopCall(c) ==
    /\ ~crashed /\ caller[c].pc = "idle"
    /\ IF monitoring_
       THEN /\ caller' = [caller EXCEPT ![c].pc = "stop_store"]
            /\ UNCHANGED stopQuiescent
       ELSE /\ UNCHANGED caller
            /\ StopReturns(c)
    /\ UNCHANGED <<tm_currentTemp_, maxTemp_, throttleTemp_, thermalState_, tempMutex_,
                   temperatureHistory_, thermalZones_, monitoring_, monitoringThread_, task,
                   crashed, tmPolls, tmLastChange>>
    /\ TmFrame

\* monitoring_.store(false)
StopStore(c) ==
    /\ ~crashed /\ caller[c].pc = "stop_store"
    /\ monitoring_' = FALSE
    /\ caller' = [caller EXCEPT ![c].pc = "stop_joinable"]
    /\ UNCHANGED <<tm_currentTemp_, maxTemp_, throttleTemp_, thermalState_, tempMutex_,
                   temperatureHistory_, thermalZones_, monitoringThread_, task, crashed,
                   tmPolls, tmLastChange, stopQuiescent>>
    /\ TmFrame

\* if (monitoringThread_.joinable()) -> join(), else return
StopJoinable(c) ==
    /\ ~crashed /\ caller[c].pc = "stop_joinable"
    /\ IF monitoringThread_ # 0
       THEN /\ caller' = [caller EXCEPT ![c] = [pc |-> "stop_join", newTemp |-> 0,
                                                 jt |-> monitoringThread_]]
            /\ UNCHANGED stopQuiescent
       ELSE /\ caller' = [caller EXCEPT ![c] = IdleCaller]
            /\ StopReturns(c)
    /\ UNCHANGED <<tm_currentTemp_, maxTemp_, throttleTemp_, thermalState_, tempMutex_,
                   temperatureHistory_, thermalZones_, monitoring_, monitoringThread_, task,
                   crashed, tmPolls, tmLastChange>>
    /\ TmFrame

\* monitoringThread_.join() returns once the thread has ended.  A second
\* join() on the thread another caller has already joined is undefined: it
\* returns as well, or it throws std::system_error and the process ends.
StopJoin(c) ==
    /\ ~crashed /\ caller[c].pc = "stop_join"
    /\ LET t == caller[c].jt
       IN IF t # 0
          THEN /\ task[t].pc = "ended"
               /\ task' = [task EXCEPT ![t] = NoTask]
               /\ monitoringThread_' = 0
               /\ caller' = [d \in Callers |->
                                IF d = c THEN IdleCaller
                                ELSE IF caller[d].pc = "stop_join" /\ caller[d].jt = t
                                     THEN [caller[d] EXCEPT !.jt = 0]
                                     ELSE caller[d]]
               /\ StopReturns(c)
               /\ UNCHANGED crashed
          ELSE \/ /\ caller' = [caller EXCEPT ![c] = IdleCaller]
                  /\ StopReturns(c)
                  /\ UNCHANGED <<task, monitoringThread_, crashed>>
               \/ /\ crashed' = TRUE
                  /\ UNCHANGED <<task, monitoringThread_, caller, stopQuiescent>>
    /\ UNCHANGED <<tm_currentTemp_, maxTemp_, throttleTemp_, thermalState_, tempMutex_,
                   temperatureHistory_, thermalZones_, monitoring_, tmPolls, tmLastChange>>
    /\ TmFrame

\* -- monitoringLoop() ------------------------------------------------------
\* while (monitoring_.load()) { updateTemperature(): read the sensors ...
TaskCheck(t) ==
    /\ ~crashed /\ task[t].pc = "check"
    /\ IF monitoring_
       THEN /\ tmPolls < MaxPolls
            /\ \E temp \in readTemperatureFromSensors(thermalZones_) :
                 task' = [task EXCEPT ![t] = [pc |-> "lock", newTemp |-> temp]]
            /\ tmPolls' = tmPolls + 1
       ELSE /\ task' = [task EXCEPT ![t] = [pc |-> "ended", newTemp |-> 0]]
            /\ UNCHANGED tmPolls
    /\ UNCHANGED <<tm_currentTemp_, maxTemp_, throttleTemp_, thermalState_, tempMutex_,
                   temperatureHistory_, thermalZones_, monitoring_, monitoringThread_, caller,
                   crashed, tmLastChange, stopQuiescent>>
    /\ TmFrame

\* ... lock_guard(tempMutex_); currentTemp_ = newTemp ...
TaskLock(t) ==
    /\ ~crashed /\ task[t].pc = "lock" /\ ~tempMutex_
    /\ tempMutex_' = TRUE
    /\ tm_currentTemp_' = task[t].newTemp
    /\ task' = [task EXCEPT ![t].pc = "eval"]
    /\ UNCHANGED <<maxTemp_, throttleTemp_, thermalState_, temperatureHistory_, thermalZones_,
                   monitoring_, monitoringThread_, caller, crashed, tmPolls, tmLastChange,
                   stopQuiescent>>
    /\ TmFrame

\* ... updateThermalState(); end of the lock scope ...
TaskEval(t) ==
    /\ ~crashed /\ task[t].pc = "eval"
    /\ updateThermalState("poll")
    /\ tempMutex_' = FALSE
    /\ task' = [task EXCEPT ![t].pc = "push"]
    /\ UNCHANGED <<tm_currentTemp_, maxTemp_, throttleTemp_, temperatureHistory_, thermalZones_,
                   monitoring_, monitoringThread_, caller, crashed, tmPolls, stopQuiescent>>
    /\ TmFrame

\* ... addToHistory(newTemp); sleep_for(1s) }
TaskPush(t) ==
    /\ ~crashed /\ task[t].pc = "push"
    /\ temperatureHistory_' = addToHistory(temperatureHistory_, task[t].newTemp, maxHistorySize)
    /\ task' = [task EXCEPT ![t] = [pc |-> "check", newTemp |-> 0]]
    /\ UNCHANGED <<tm_currentTemp_, maxTemp_, throttleTemp_, thermalState_, tempMutex_,
                   thermalZones_, monitoring_, monitoringThread_, caller, crashed, tmPolls,
                   tmLastChange, stopQuiescent>>
    /\ TmFrame

TmInit ==
    /\ tm_currentTemp_ = 35000
    /\ maxTemp_ = 45000
    /\ throttleTemp_ = 40000
    /\ thermalState_ = NORMAL
    /\ tempMutex_ = FALSE
    /\ temperatureHistory_ = <<>>
    /\ thermalZones_ = FALSE
    /\ monitoring_ = FALSE
    /\ monitoringThread_ = 0
    /\ task = [t \in TaskIds |-> NoTask]
    /\ caller = [c \in Callers |-> IdleCaller]
    /\ crashed = FALSE
    /\ tmPolls = 0
    /\ tmLastChange = [by |-> "none", from |-> NORMAL, to |-> NORMAL]
    /\ stopQuiescent = FALSE

NextThermal ==
    \/ \E c \in Callers : TmInitialize(c)
    \/ \E c \in Callers : UpdLock(c)
    \/ \E c \in Callers : UpdEval(c)
    \/ \E c \in Callers : UpdPush(c)
    \/ \E c \in Callers : SetLimitsWrite(c)
    \/ \E c \in Callers : SetLimitsEval(c)
    \/ \E c \in Callers : StartCall(c)
    \/ \E c \in Callers : StartStore(c)
    \/ \E c \in Callers : StartSpawn(c)
    \/ \E c \in Callers : StartAssign(c)
    \/ \E c \in Callers : StopCall(c)
    \/ \E c \in Callers : StopStore(c)
    \/ \E c \in Callers : StopJoinable(c)
    \/ \E c \in Callers : StopJoin(c)
    \/ \E t \in TaskIds : TaskCheck(t)
    \/ \E t \in TaskIds : TaskLock(t)
    \/ \E t \in TaskIds : TaskEval(t)
    \/ \E t \in TaskIds : TaskPush(t)

----------------------------------------------------------------------------
(* The histories on a sequential run: the monitor polls on its one-second  *)
(* cadence with no thermal zone detected, the verifier generates proofs.   *)

MaxAppends == 1003      \* appends explored per history

\* simulateTemperature(): 35 + 5 sin(millis / 10000), sampled once a second
SimTable ==
    << 35000, 35499, 35993, 36478, 36947, 37397, 37823, 38221, 38587,
       38917, 39207, 39456, 39660, 39818, 39927, 39987, 39998, 39958,
       39869, 39732, 39546, 39316, 39042, 38729, 38377, 37992, 37578,
       37137, 36675, 36196, 35706, 35208, 34708, 34211, 33722, 33246,
       32787, 32351, 31941, 31561, 31216, 30909, 30642, 30419, 30242,
       30112, 30032, 30000, 30019, 30088, 30205, 30371, 30583, 30839,
       31136, 31472, 31844, 32247, 32677, 33131, 33603, 34089, 34585 >>
SimPeriod == Len(SimTable)

simulateTemperature(second) == SimTable[(second % SimPeriod) + 1]

\* the second of the sine period at which the run starts
StartSeconds == {0, 17, 40}

\* the cycle deltas the proof runs measure, one per run
CycleTable == <<400000, 400213, 399871, 401002, 400057>>

\* the ThermalProof generateThermalProof() fills in on its k-th run
ThermalProofOf(k) ==
    [cycleCount |-> CycleTable[(k % Len(CycleTable)) + 1],
     temperature |-> simulateTemperature(k + hPhase)]

\* updateTemperature() run by one thread from start to end
HistPoll ==
    /\ hPolls < MaxAppends
    /\ hPolls <= hProofs
    /\ IF hPolls = 0 THEN hPhase' \in StartSeconds ELSE UNCHANGED hPhase
    /\ LET newTemp == simulateTemperature(hPolls + hPhase')
       IN /\ tm_currentTemp_' = newTemp
          /\ LET ns == newState(newTemp, throttleTemp_, maxTemp_)
             IN /\ thermalState_' = ns
                /\ tmLastChange' = IF ns # thermalState_
                                   THEN [by |-> "poll", from |-> thermalState_, to |-> ns]
                                   ELSE tmLastChange
          /\ temperatureHistory_' = addToHistory(temperatureHistory_, newTemp, maxHistorySize)
    /\ hPolls' = hPolls + 1
    /\ UNCHANGED <<maxTemp_, throttleTemp_, tempMutex_, thermalZones_, monitoring_,
                   monitoringThread_, task, caller, crashed, tmPolls, stopQuiescent>>
    /\ UNCHANGED <<thermalHistory_, hProofs>>
    /\ UNCHANGED <<pmVars, npuVars, lateVars>>

\* generateThermalProof(): addToHistory(proof)
HistProof ==
    /\ hProofs < MaxAppends
    /\ hProofs < hPolls
    /\ thermalHistory_' = addToHistory(thermalHistory_, ThermalProofOf(hProofs), MAX_HISTORY_SIZE)
    /\ hProofs' = hProofs + 1
    /\ UNCHANGED <<hPolls, hPhase>>
    /\ UNCHANGED <<pmVars, tmVars, npuVars, lateVars>>

HInit ==
    /\ thermalHistory_ = <<>>
    /\ hPolls = 0
    /\ hProofs = 0
    /\ hPhase = 0

NextHistory == HistPoll \/ HistProof

----------------------------------------------------------------------------
(* HeterogeneousScheduler (arm64_optimizations.cpp).  activeCores_ is the   *)
(* set of indices holding true in the vector, activeCoresSize its size; a   *)
(* u32 bitmap is the set of its set bit positions.                          *)

MaxIntensity == 2

\* std::thread::hardware_concurrency()
CoreCounts == {0, 1, 4, 8, 33}

\* arguments of configureHeterogeneousCores
CountArgs == {-1, 0, 1, 2, 4, 8, 40}

\* the sequence lo, lo+1, ..., hi-1
IdRange(lo, hi) == [j \in 1..(IF hi > lo THEN hi - lo ELSE 0) |-> lo + (j - 1)]

\* detectCoreTopology(): the ids are pushed behind the ids already listed
detectCoreTopology(old, n, android) ==
    IF android
    THEN [totalCores |-> n,
          littleCores |-> n \div 2,
          bigCores |-> n - (n \div 2),
          littleCoreIds |-> old.littleCoreIds \o IdRange(0, n \div 2),
          bigCoreIds |-> old.bigCoreIds \o IdRange(n \div 2, n)]
    ELSE [totalCores |-> n,
          littleCores |-> 0,
          bigCores |-> n,
          littleCoreIds |-> old.littleCoreIds,
          bigCoreIds |-> old.bigCoreIds \o IdRange(0, n)]

\* the activation loop of configureHeterogeneousCores over one id list,
\* from position j on with `activated` cores counted so far
RECURSIVE ActivateCores(_, _, _, _, _, _)
ActivateCores(active, ids, j, activated, count, size) ==
    IF j > Len(ids) \/ activated >= count
    THEN active
    ELSE IF ids[j] < size
         THEN ActivateCores(active \cup {ids[j]}, ids, j + 1, activated + 1, count, size)
         ELSE ActivateCores(active, ids, j + 1, activated, count, size)

\* configureHeterogeneousCores without the reset of the vector
configureHeterogeneousCores_keepsOld(active, size, topology, bigCoreCount, littleCoreCount) ==
    ActivateCores(ActivateCores(active, topology.bigCoreIds, 1, 0, bigCoreCount, size),
                  topology.littleCoreIds, 1, 0, littleCoreCount, size)

\* configureHeterogeneousCores(bigCoreCount, littleCoreCount): the new vector
configureHeterogeneousCores(active, size, topology, bigCoreCount, littleCoreCount) ==
    ActivateCores(ActivateCores({}, topology.bigCoreIds, 1, 0, bigCoreCount, size),
                  topology.littleCoreIds, 1, 0, littleCoreCount, size)

\* getCoreState(): bit i for every active i < min(size, 32)
getCoreState ==
    {i \in 0..((IF activeCoresSize < 32 THEN activeCoresSize ELSE 32) - 1) : i \in activeCores_}

\* getActiveCores()
getActiveCores == Cardinality(activeCores_)

\* increaseIntensity() searching one index too far
indexToActivate_offByOne(active, size) ==
    IF \E i \in 0..size : i \notin active
    THEN {CHOOSE i \in 0..size : i \notin active /\ \A k \in 0..(i - 1) : k \in active}
    ELSE {}

\* increaseIntensity(): the first index holding false, if any
indexToActivate(active, size) ==
    IF \E i \in 0..(size - 1) : i \notin active
    THEN {CHOOSE i \in 0..(size - 1) : i \notin active /\ \A k \in 0..(i - 1) : k \in active}
    ELSE {}

\* reduceIntensity(): the highest index above 0 holding true, if any
indexToDeactivate(active, size) ==
    IF \E i \in 1..(size - 1) : i \in active
    THEN {CHOOSE i \in 1..(size - 1) : i \in active /\ \A k \in (i + 1)..(size - 1) : k \notin active}
    ELSE {}

\* reduceIntensity() deactivating the last active core too
mayDeactivate_lastCore(activeCoreCount) == activeCoreCount > 0

\* if (activeCoreCount > 1)
mayDeactivate(activeCoreCount) == activeCoreCount > 1

HsFrame == UNCHANGED <<pmVars, tmVars, hVars, npuVars, ntVars, engineVars, mxVars, tvVars, runVars, jniVars, permVars, hashVars, mtVars>>

\* HeterogeneousScheduler::initialize(): detectCoreTopology(); activeCores_.resize(total, false).
\* Its owner ARM64Optimizer::initialize() calls it once on every scheduler it creates.
HsInitialize ==
    /\ schedInits = 0
    /\ \E n \in CoreCounts, android \in BOOLEAN :
        /\ topology_' = detectCoreTopology(topology_, n, android)
        /\ activeCoresSize' = n
        /\ activeCores_' = {i \in activeCores_ : i < n}
    /\ schedInits' = schedInits + 1
    /\ schedLastOp' = [op |-> "initialize", big |-> 0, little |-> 0]
    /\ UNCHANGED currentIntensity_
    /\ HsFrame

HsConfigure ==
    \E b \in CountArgs, l \in CountArgs :
        /\ activeCores_' = configureHeterogeneousCores(activeCores_, activeCoresSize,
                                                       topology_, b, l)
        /\ schedLastOp' = [op |-> "configure", big |-> b, little |-> l]
        /\ UNCHANGED <<topology_, activeCoresSize, currentIntensity_, schedInits>>
        /\ HsFrame

HsReduceIntensity ==
    /\ IF currentIntensity_ > 0
       THEN /\ currentIntensity_' = currentIntensity_ - 1
            /\ activeCores_' = IF mayDeactivate(getActiveCores)
                               THEN activeCores_ \ indexToDeactivate(activeCores_, activeCoresSize)
                               ELSE activeCores_
       ELSE UNCHANGED <<currentIntensity_, activeCores_>>
    /\ schedLastOp' = [op |-> "reduceIntensity", big |-> 0, little |-> 0]
    /\ UNCHANGED <<topology_, activeCoresSize, schedInits>>
    /\ HsFrame

HsIncreaseIntensity ==
    /\ currentIntensity_ < MaxIntensity
    /\ currentIntensity_' = currentIntensity_ + 1
    /\ activeCores_' = activeCores_ \cup indexToActivate(activeCores_, activeCoresSize)
    /\ schedLastOp' = [op |-> "increaseIntensity", big |-> 0, little |-> 0]
    /\ UNCHANGED <<topology_, activeCoresSize, schedInits>>
    /\ HsFrame

\* setCPUAffinity(coreIds): sched_setaffinity() succeeds or is denied on
\* Android, whose topology has totalCores / 2 little cores; the build for
\* other platforms returns false
setCPUAffinityResults ==
    IF topology_.littleCores = topology_.totalCores \div 2 THEN BOOLEAN ELSE {FALSE}

\* runOnBigCores/runOnLittleCores returning false without running the work
runOnCores_skipsFallback(coreIds, bound) ==
    IF coreIds = <<>>
    THEN [executed |-> 1, attempted |-> FALSE, bound |-> FALSE, result |-> TRUE]
    ELSE IF bound
    THEN [executed |-> 1, attempted |-> TRUE, bound |-> TRUE, result |-> TRUE]
    ELSE [executed |-> 0, attempted |-> TRUE, bound |-> FALSE, result |-> FALSE]

\* the three paths of runOnBigCores/runOnLittleCores over the id list of the
\* class: how often work() ran, whether setCPUAffinity was called, whether it
\* bound the thread, and the value returned
runOnCores(coreIds, bound) ==
    IF coreIds = <<>>
    THEN [executed |-> 1, attempted |-> FALSE, bound |-> FALSE, result |-> TRUE]
    ELSE IF bound
    THEN [executed |-> 1, attempted |-> TRUE, bound |-> TRUE, result |-> TRUE]
    ELSE [executed |-> 1, attempted |-> TRUE, bound |-> FALSE, result |-> FALSE]

\* a call of op on the id list of its class
HsRunOn(op, coreIds) ==
    /\ \E bound \in setCPUAffinityResults :
          LET r == runOnCores(coreIds, bound)
          IN /\ runLast' = [op |-> op, executed |-> r.executed, attempted |-> r.attempted,
                            bound |-> r.bound, result |-> r.result]
             /\ threadAffinity' =
                    IF r.bound
                    THEN [bound |-> TRUE, cpus |-> {coreIds[j] : j \in 1..Len(coreIds)}]
                    ELSE threadAffinity
    /\ schedLastOp' = [op |-> op, big |-> 0, little |-> 0]
    /\ UNCHANGED <<topology_, activeCores_, activeCoresSize, currentIntensity_, schedInits>>
    /\ UNCHANGED <<pmVars, tmVars, hVars, npuVars, ntVars, engineVars, mxVars, tvVars, jniVars, permVars, hashVars, mtVars>>

HsRunOnBigCores == HsRunOn("runOnBigCores", topology_.bigCoreIds)
HsRunOnLittleCores == HsRunOn("runOnLittleCores", topology_.littleCoreIds)

\* shutdown(): std::fill(false)
HsShutdown ==
    /\ activeCores_' = {}
    /\ schedLastOp' = [op |-> "shutdown", big |-> 0, little |-> 0]
    /\ UNCHANGED <<topology_, activeCoresSize, currentIntensity_, schedInits>>
    /\ HsFrame

HsInit ==
    /\ topology_ = [totalCores |-> 0, littleCores |-> 0, bigCores |-> 0,
                    littleCoreIds |-> <<>>, bigCoreIds |-> <<>>]
    /\ activeCores_ = {}
    /\ activeCoresSize = 0
    /\ currentIntensity_ = 0
    /\ schedInits = 0
    /\ schedLastOp = [op |-> "constructed", big |-> 0, little |-> 0]
    /\ threadAffinity = [bound |-> FALSE, cpus |-> {}]
    /\ runLast = [op |-> "none", executed |-> 0, attempted |-> FALSE, bound |-> FALSE,
                  result |-> FALSE]

NextScheduler ==
    \/ HsInitialize \/ HsConfigure \/ HsReduceIntensity \/ HsIncreaseIntensity \/ HsShutdown
    \/ HsRunOnBigCores \/ HsRunOnLittleCores

----------------------------------------------------------------------------
(* NPUIntegration, as created and used by MobileXMiner *)

MaxNpuOps == 4      \* executeConvolution calls explored per engine

\* Tensor: the shape and the number of data elements
Tensor(shape, n) == [shape |-> shape, n |-> n]
EmptyTensor == Tensor(<<>>, 0)

RECURSIVE Product(_)
Product(shape) == IF shape = <<>> THEN 1 ELSE Head(shape) * Product(Tail(shape))

\* Tensor::size()
TensorSize(t) == IF t.shape = <<>> THEN t.n ELSE Product(t.shape)

\* Tensor::isValid()
isValid(t) == t.n # 0 /\ t.shape # <<>> /\ t.n = TensorSize(t)

\* input tensors: the one stateToTensor() builds, and malformed ones
InputTensors == { Tensor(<<32, 32, 3>>, 3072), Tensor(<<32, 32, 3>>, 1024), EmptyTensor }

\* isNPUAvailable()
isNPUAvailable == npuAvailable_ /\ primaryAdapter_ # "null" /\ primaryAdapter_ = "ready"

\* Outcome of the NNAPI calls of one AndroidNNAPIAdapter::executeConvolution:
\* all succeed, create / setInput / setOutput fails, or compute fails
NnapiOutcomes == {"ok", "setup_failed", "compute_failed"}

\* AndroidNNAPIAdapter::executeConvolution: result, output, and whether
\* updateMetrics() ran
PrimaryExecute(input, nnapi) ==
    IF primaryAdapter_ # "ready" \/ ~isValid(input)
    THEN [ok |-> FALSE, out |-> EmptyTensor, counted |-> FALSE]
    ELSE IF nnapi = "setup_failed"
         THEN [ok |-> FALSE, out |-> EmptyTensor, counted |-> FALSE]
         ELSE [ok |-> nnapi = "ok", out |-> Tensor(input.shape, input.n), counted |-> TRUE]

\* CPUNeuralFallback::executeConvolution with softwareConvolution
FallbackExecute(input) ==
    IF ~isValid(input)
    THEN [ok |-> FALSE, out |-> EmptyTensor, counted |-> FALSE]
    ELSE [ok |-> TRUE, out |-> Tensor(<<32, 32, 1>>, 32 * 32), counted |-> TRUE]

\* updateAggregateMetrics(metrics): once at least a second has passed since
\* the last update, add the adapter's operation count
updateAggregateMetrics(adapterOperations, secondPassed) ==
    IF secondPassed THEN aggregateOperations + adapterOperations ELSE aggregateOperations

NpuFrame == UNCHANGED <<pmVars, tmVars, hVars, lateVars>>

\* a platform adapter that is tried again after it failed
usesPrimaryAdapter_retriesPlatform == isNPUAvailable

\* isNPUAvailable() && !usesFallback_
usesPrimaryAdapter == isNPUAvailable /\ ~usesFallback_

NoExec == [called |-> FALSE, inputValid |-> FALSE, invokedPlatform |-> FALSE,
           ok |-> FALSE, out |-> EmptyTensor]

\* std::thread::hardware_concurrency() on the devices the miner is run on
MinerCoreCounts == {8}

\* the first 1024 bytes of the cache that initializeRandomX() fills from
\* std::random_device
CacheContents == {"random_a", "random_b"}

\* MobileXMiner::initialize(): thermal_ and arm64_ are created (ARM64Optimizer
\* creates and initializes a new scheduler); npu_ = new NPUIntegration;
\* initializeNNAPI(); if (!isNPUAvailable()) initializeCPUFallback();
\* initializeRandomX()
initialize ==
    /\ arm64_' = TRUE
    /\ \E n \in MinerCoreCounts, android \in BOOLEAN :
        /\ topology_' = detectCoreTopology(
                            [totalCores |-> 0, littleCores |-> 0, bigCores |-> 0,
                             littleCoreIds |-> <<>>, bigCoreIds |-> <<>>], n, android)
        /\ activeCoresSize' = n
    /\ activeCores_' = {}
    /\ currentIntensity_' = 0
    /\ schedInits' = 1
    /\ schedLastOp' = [op |-> "initialize", big |-> 0, little |-> 0]
    /\ \E nnapiInit \in BOOLEAN :
        /\ primaryAdapter_' = IF nnapiInit THEN "ready" ELSE "failed"
        /\ npuAvailable_' = nnapiInit
        /\ usesFallback_' = ~nnapiInit
        /\ fallbackAdapter_' = ~nnapiInit
    /\ npu_' = TRUE
    /\ primaryOperations' = 0
    /\ fallbackOperations' = 0
    /\ aggregateOperations' = 0
    /\ npuLastExec' = NoExec
    /\ npuPlatformFailed' = FALSE
    /\ npuOps' = 0
    /\ randomxVM_' = TRUE
    /\ randomxCache_' \in CacheContents

MinerFrame == UNCHANGED <<pmVars, tmVars, hVars, ntVars, tvVars, runVars, jniVars, permVars, hashVars, mtVars>>

MinerInitialize ==
    /\ initialize
    /\ UNCHANGED mxVars
    /\ MinerFrame

\* NPUIntegration::executeConvolution(input, output) on one input, with the
\* result the NNAPI calls give and whether a second has passed since the last
\* metrics update
executeConvolutionOn(input, nnapi, secondPassed) ==
    LET usePrimary == usesPrimaryAdapter
        p == PrimaryExecute(input, nnapi)
        f == FallbackExecute(input)
        pOps == IF usePrimary /\ p.counted THEN primaryOperations + 1
                ELSE primaryOperations
    IN /\ primaryOperations' = pOps
       /\ IF usePrimary /\ p.ok
          THEN /\ aggregateOperations' = updateAggregateMetrics(pOps, secondPassed)
               /\ npuLastExec' = [called |-> TRUE, inputValid |-> isValid(input),
                                  invokedPlatform |-> TRUE, ok |-> TRUE, out |-> p.out]
               /\ UNCHANGED <<usesFallback_, npuPlatformFailed, fallbackOperations>>
          ELSE /\ usesFallback_' = (usePrimary \/ usesFallback_)
               /\ npuPlatformFailed' = (usePrimary \/ npuPlatformFailed)
               /\ IF fallbackAdapter_
                  THEN /\ fallbackOperations' = IF f.counted THEN fallbackOperations + 1
                                                ELSE fallbackOperations
                       /\ aggregateOperations' =
                            IF f.ok
                            THEN updateAggregateMetrics(fallbackOperations', secondPassed)
                            ELSE aggregateOperations
                       /\ npuLastExec' = [called |-> TRUE, inputValid |-> isValid(input),
                                          invokedPlatform |-> usePrimary, ok |-> f.ok,
                                          out |-> f.out]
                  ELSE /\ UNCHANGED <<fallbackOperations, aggregateOperations>>
                       /\ npuLastExec' = [called |-> TRUE, inputValid |-> isValid(input),
                                          invokedPlatform |-> usePrimary, ok |-> FALSE,
                                          out |-> IF usePrimary THEN p.out ELSE EmptyTensor]

\* NPUIntegration::executeConvolution(input, output)
executeConvolution ==
    /\ npu_
    /\ npuOps < MaxNpuOps
    /\ \E input \in InputTensors, nnapi \in NnapiOutcomes, secondPassed \in BOOLEAN :
        executeConvolutionOn(input, nnapi, secondPassed)
    /\ npuOps' = npuOps + 1
    /\ UNCHANGED <<npu_, primaryAdapter_, fallbackAdapter_, npuAvailable_>>
    /\ NpuFrame

\* MobileXMiner::close(): stopMining(); cleanupRandomX(); thermal_, arm64_
\* (with its scheduler) and npu_ are shut down and destroyed
close ==
    /\ mining_' = FALSE
    /\ randomxVM_' = FALSE
    /\ randomxCache_' = "none"
    /\ arm64_' = FALSE
    /\ topology_' = [totalCores |-> 0, littleCores |-> 0, bigCores |-> 0,
                     littleCoreIds |-> <<>>, bigCoreIds |-> <<>>]
    /\ activeCores_' = {}
    /\ activeCoresSize' = 0
    /\ currentIntensity_' = 0
    /\ schedInits' = 0
    /\ schedLastOp' = [op |-> "constructed", big |-> 0, little |-> 0]
    /\ npu_' = FALSE
    /\ primaryAdapter_' = "null"
    /\ fallbackAdapter_' = FALSE
    /\ npuAvailable_' = FALSE
    /\ usesFallback_' = TRUE
    /\ npuPlatformFailed' = FALSE
    /\ UNCHANGED <<primaryOperations, fallbackOperations, aggregateOperations,
                   npuLastExec, npuOps>>

MinerClose ==
    /\ npu_
    /\ close
    /\ UNCHANGED <<npuEnabled_, hashesCompleted_, mxPc, mxCall, mxGolden, mxOps, startTime_>>
    /\ MinerFrame

NpuInit ==
    /\ npu_ = FALSE
    /\ primaryAdapter_ = "null"
    /\ fallbackAdapter_ = FALSE
    /\ npuAvailable_ = FALSE
    /\ usesFallback_ = TRUE
    /\ primaryOperations = 0
    /\ fallbackOperations = 0
    /\ aggregateOperations = 0
    /\ npuLastExec = NoExec
    /\ npuPlatformFailed = FALSE
    /\ npuOps = 0

NextNPU == MinerInitialize \/ executeConvolution \/ MinerClose

----------------------------------------------------------------------------
(* Mining threads calling NPUIntegration::executeConvolution concurrently.  *)
(* NPUIntegration and AndroidNNAPIAdapter hold no mutex; execution_ is the  *)
(* adapter's single execution handle.                                      *)

MaxNtCalls == 3

Workers == {"w1", "w2"}

\* a thread is inside AndroidNNAPIAdapter::executeConvolution
InPlatformBackend(w) == ntPc[w] \in {"primary", "compute"}

NtFrame == UNCHANGED <<pmVars, tmVars, hVars, hsVars, engineVars, mxVars, tvVars, runVars, jniVars, permVars, hashVars, mtVars>>

\* MobileXMiner::initialize() while no thread is inside the engine
NtInitialize ==
    /\ \A w \in Workers : ntPc[w] = "idle"
    /\ ~ntCrashed
    /\ MinerInitialize

\* MobileXMiner::close() while no thread is inside the engine
NtClose ==
    /\ \A w \in Workers : ntPc[w] = "idle"
    /\ ~ntCrashed
    /\ MinerClose

\* NPUIntegration::executeConvolution entry: if (isNPUAvailable() && !usesFallback_)
NtCall(w) ==
    /\ ~ntCrashed
    /\ npu_
    /\ ntPc[w] = "idle"
    /\ ntCalls < MaxNtCalls
    /\ ntCalls' = ntCalls + 1
    /\ ntPc' = [ntPc EXCEPT ![w] = IF usesPrimaryAdapter THEN "primary" ELSE "fallback"]
    /\ UNCHANGED <<execution_, ntCrashed, npuVars>>
    /\ NtFrame

\* AndroidNNAPIAdapter::executeConvolution up to the compute call:
\* ANeuralNetworksExecution_create(compilation_, &execution_), setInput, setOutput
NtPrimaryCreate(w) ==
    /\ ~ntCrashed
    /\ ntPc[w] = "primary"
    /\ \E created \in BOOLEAN :
        IF created
        THEN /\ execution_' = w
             /\ ntPc' = [ntPc EXCEPT ![w] = "compute"]
        ELSE /\ UNCHANGED execution_
             /\ ntPc' = [ntPc EXCEPT ![w] = "failed"]
    /\ UNCHANGED <<ntCalls, ntCrashed, npuVars>>
    /\ NtFrame

\* ANeuralNetworksExecution_compute(execution_); free; execution_ = nullptr;
\* updateMetrics; on success updateAggregateMetrics and return true.
\* A handle replaced or freed by another thread is used after free.
NtPrimaryCompute(w) ==
    /\ ~ntCrashed
    /\ ntPc[w] = "compute"
    /\ \/ /\ execution_ # w
          /\ ntCrashed' = TRUE
          /\ UNCHANGED <<ntPc, execution_, ntCalls, npuVars>>
       \/ /\ execution_' = "null"
          /\ primaryOperations' = primaryOperations + 1
          /\ \E computed \in BOOLEAN, secondPassed \in BOOLEAN :
               IF computed
               THEN /\ aggregateOperations' =
                          updateAggregateMetrics(primaryOperations', secondPassed)
                    /\ ntPc' = [ntPc EXCEPT ![w] = "idle"]
               ELSE /\ UNCHANGED aggregateOperations
                    /\ ntPc' = [ntPc EXCEPT ![w] = "failed"]
          /\ UNCHANGED <<ntCalls, ntCrashed, npu_, primaryAdapter_, fallbackAdapter_,
                         npuAvailable_, usesFallback_, fallbackOperations,
                         npuLastExec, npuPlatformFailed, npuOps>>
    /\ NtFrame

\* "Fall back to CPU if NPU fails": usesFallback_ = true
NtPrimaryFailed(w) ==
    /\ ~ntCrashed
    /\ ntPc[w] = "failed"
    /\ usesFallback_' = TRUE
    /\ npuPlatformFailed' = TRUE
    /\ ntPc' = [ntPc EXCEPT ![w] = "fallback"]
    /\ UNCHANGED <<execution_, ntCalls, ntCrashed, npu_, primaryAdapter_, fallbackAdapter_,
                   npuAvailable_, primaryOperations, fallbackOperations,
                   aggregateOperations, npuLastExec, npuOps>>
    /\ NtFrame

\* if (fallbackAdapter_) { fallbackAdapter_->executeConvolution; ... } return
NtFallback(w) ==
    /\ ~ntCrashed
    /\ ntPc[w] = "fallback"
    /\ IF fallbackAdapter_
       THEN /\ fallbackOperations' = fallbackOperations + 1
            /\ \E secondPassed \in BOOLEAN :
                 aggregateOperations' =
                     updateAggregateMetrics(fallbackOperations', secondPassed)
       ELSE UNCHANGED <<fallbackOperations, aggregateOperations>>
    /\ ntPc' = [ntPc EXCEPT ![w] = "idle"]
    /\ UNCHANGED <<execution_, ntCalls, ntCrashed, npu_, primaryAdapter_, fallbackAdapter_,
                   npuAvailable_, usesFallback_, primaryOperations,
                   npuLastExec, npuPlatformFailed, npuOps>>
    /\ NtFrame

NtInit ==
    /\ ntPc = [w \in Workers |-> "idle"]
    /\ execution_ = "null"
    /\ ntCalls = 0
    /\ ntCrashed = FALSE

NextNpuThreads ==
    \/ NtInitialize
    \/ NtClose
    \/ \E w \in Workers : NtCall(w)
    \/ \E w \in Workers : NtPrimaryCreate(w)
    \/ \E w \in Workers : NtPrimaryCompute(w)
    \/ \E w \in Workers : NtPrimaryFailed(w)
    \/ \E w \in Workers : NtFallback(w)

----------------------------------------------------------------------------
(* MobileXMiner on one thread: lifecycle, configuration and the steps of    *)
(* computeMobileXHash.  A SHA-256 digest is the term of what was hashed     *)
(* (distinct inputs give distinct digests), with its length in bytes.       *)

MaxHashes == 151
MaxMinerOps == 2

\* npuInterval_(150)
npuInterval_ == 150

\* bitwise exclusive or of two bytes
RECURSIVE Xor(_, _)
Xor(a, b) ==
    IF a = 0 THEN b
    ELSE IF b = 0 THEN a
    ELSE 2 * Xor(a \div 2, b \div 2) + (((a % 2) + (b % 2)) % 2)

\* result[i % 32] ^= data[i] for i from position j (1-based) on
RECURSIVE FoldFrom(_, _, _)
FoldFrom(result, data, j) ==
    IF j > Len(data) THEN result
    ELSE FoldFrom([result EXCEPT ![((j - 1) % 32) + 1] = Xor(result[((j - 1) % 32) + 1], data[j])],
                  data, j + 1)

\* ARM64Optimizer::scalarHash
scalarHash(data) == FoldFrom([k \in 1..32 |-> 0], data, 1)

\* the NEON loop always using the first half of the result
neonOffset_firstHalf(i) == 0

\* result.data() + (i % 2) * 16
neonOffset(i) == (i % 2) * 16

\* the NEON loop from chunk i on: load 16 bytes of data and of the result,
\* veorq_u8, store back
RECURSIVE NeonChunks(_, _, _, _)
NeonChunks(result, data, i, chunks) ==
    IF i >= chunks THEN result
    ELSE NeonChunks([k \in 1..32 |->
                        IF k - 1 >= neonOffset(i) /\ k - 1 < neonOffset(i) + 16
                        THEN Xor(result[k], data[i * 16 + (k - 1 - neonOffset(i)) + 1])
                        ELSE result[k]],
                    data, i + 1, chunks)

\* the NEON path of vectorHash: 16-byte chunks, then the remaining bytes
neonHash(data) ==
    LET chunks == Len(data) \div 16
    IN FoldFrom(NeonChunks([k \in 1..32 |-> 0], data, 0, chunks), data, chunks * 16 + 1)

\* ARM64Optimizer::vectorHash on the NEON build (hasNEON is set by
\* detectFeatures())
vectorHash(data) == neonHash(data)

MaxHashLen == 50

\* byte sequences of every length up to MaxHashLen, byte j being
\* (seed * j + 3) mod 256
HashInputs ==
    {[j \in 1..n |-> (seed * j + 3) % 256] : n \in 0..MaxHashLen, seed \in {0, 7, 255}}

\* vectorHash(data) on the NEON build and scalarHash(data), for one input
VhHash ==
    /\ \E data \in HashInputs :
          /\ vhData' = data
          /\ vhNeon' = vectorHash(data)
          /\ vhScalar' = scalarHash(data)
    /\ UNCHANGED <<pmVars, tmVars, hVars, npuVars, ntVars, hsVars, engineVars, mxVars,
                   tvVars, runVars, jniVars, permVars, mtVars>>

VhInit ==
    /\ vhData = <<>>
    /\ vhNeon = <<>>
    /\ vhScalar = <<>>

NextHash == VhHash

\* header bytes given to computeMobileXHash
Headers == {<<>>, [k \in 1..32 |-> 0], <<1, 255>>}

NoHash == [len |-> 0, stage |-> "none", input |-> <<>>, cache |-> "none"]

\* std::vector<uint8_t>(32, 0)
ZeroHash == [len |-> 32, stage |-> "zero", input |-> <<>>, cache |-> "none"]

\* randomx_calc_hash(vm, input): SHA-256 over the input and the first 1024
\* bytes of the cache
randomx_calc_hash(cache, input) ==
    [len |-> 32, stage |-> "vm", input |-> input, cache |-> cache]

\* applyMobileMixing(): armSpecificHash, core-state XOR, final SHA-256
applyMobileMixing(vmOutput) ==
    [len |-> 32, stage |-> "mixed", input |-> vmOutput.input, cache |-> vmOutput.cache]

\* computeMobileXHash proceeding although randomxVM_ is null
vmMissing_ignored(vm) == FALSE

\* if (!randomxVM_)
vmMissing(vm) == ~vm

\* shouldRunNPU(): npuEnabled_ && npu_ && hashesCompleted_ % npuInterval_ == 0
shouldRunNPU == npuEnabled_ /\ npu_ /\ (hashesCompleted_ % npuInterval_) = 0

\* stateToTensor(vmState): 3072 floats shaped {32, 32, 3}
stateToTensor == Tensor(<<32, 32, 3>>, 32 * 32 * 3)

\* *(uint32_t*)npuResult.data() % 1000 for a platform output
PlatformSkips == {0, 149}

\* SHA256 of the eight counter bytes, as 32 bytes: digests the platform can
\* return for a counter value
StateDigests ==
    { [k \in 1..32 |-> (7 * k + 1) % 256], [k \in 1..32 |-> 255] }

\* runNPUStep(): vmState is 2048 bytes; the first eight are the counter
\* (little endian), the next 32 the digest, the rest stays 0
vmState(hashCount, stateHash, i) ==
    IF i < 4 THEN (hashCount \div (256 ^ i)) % 256
    ELSE IF i < 8 THEN 0
    ELSE IF i - 8 < 32 THEN stateHash[((i - 8) % 32) + 1]
    ELSE 0

\* stateToTensor(state)[i] in units of 1/255: state[i] / 255.0f for the 2048
\* bytes of the state, 0.0 for the remaining elements of the 3072
stateToTensorData(hashCount, stateHash, i) ==
    IF i < 32 * 32 * 3 /\ i < 2048 THEN vmState(hashCount, stateHash, i) ELSE 0

\* a convolution that also writes the border pixels
isInterior_wholeImage(y, x) == TRUE

\* the pixels the loops of softwareConvolution visit: 1 <= y < 31, 1 <= x < 31
isInterior(y, x) == 1 <= y /\ y < 31 /\ 1 <= x /\ x < 31

\* softwareConvolution: output element dstIdx in units of 1/(3 * 255). The
\* kernel keeps the centre pixel only, so a visited pixel is the channel sum
\* of the input pixel divided by 3; an element the loops do not visit keeps
\* the value prior it had after output.data.resize(32 * 32)
softwareConvolution(hashCount, stateHash, prior, dstIdx) ==
    LET y == dstIdx \div 32
        x == dstIdx % 32
        srcIdx(c) == (y * 32 + x) * 3 + c
    IN  IF isInterior(y, x)
        THEN stateToTensorData(hashCount, stateHash, srcIdx(0))
             + stateToTensorData(hashCount, stateHash, srcIdx(1))
             + stateToTensorData(hashCount, stateHash, srcIdx(2))
        ELSE 3 * prior

\* std::clamp(v, 0, 255) followed by the conversion to uint8_t
clampToByte(v) == IF v < 0 THEN 0 ELSE IF v > 255 THEN 255 ELSE v

\* tensorToState(tensor)[i] for the fallback's output: tensor.data[i] * 255.0f
\* clamped to 0..255 and truncated
tensorToState(hashCount, stateHash, prior, i) ==
    clampToByte(softwareConvolution(hashCount, stateHash, prior, i) \div 3)

\* the output tensor processNeuralStep() passes is default constructed, so
\* resize() value-initialises every element
FreshOutput == 0

\* *(uint32_t*)npuResult.data() % 1000 for the fallback's result
fallbackSkip(hashCount, stateHash) ==
    LET b(i) == tensorToState(hashCount, stateHash, FreshOutput, i)
    IN  (b(0) + 256 * b(1) + (65536 % 1000) * b(2) + (16777216 % 1000) * b(3)) % 1000

\* afterStop: no lifecycle call was made since stopMining() returned
NoCall == [header |-> <<>>, vm |-> FALSE, c0 |-> 0, npuEnabled |-> FALSE, work |-> NoHash,
           trace |-> <<>>, ranNpu |-> FALSE, result |-> NoHash, returned |-> FALSE,
           afterStop |-> FALSE]

MxFrame == UNCHANGED <<pmVars, tmVars, hVars, ntVars, tvVars, runVars, jniVars, permVars, hashVars, mtVars>>
MxIdle == mxPc = "idle"

\* return from computeMobileXHash
MxReturn(call, result) ==
    /\ mxCall' = [call EXCEPT !.result = result, !.returned = TRUE, !.work = NoHash]
    /\ mxGolden' = IF call.vm /\ ~mxGolden.recorded
                   THEN [recorded |-> TRUE, header |-> call.header, result |-> result]
                   ELSE mxGolden
    /\ mxPc' = "idle"

MxInitialize ==
    /\ MxIdle
    /\ mxOps < MaxMinerOps
    /\ initialize
    /\ mxOps' = mxOps + 1
    /\ mxCall' = NoCall
    /\ UNCHANGED <<mining_, npuEnabled_, hashesCompleted_, mxPc, mxGolden, startTime_>>
    /\ MxFrame

MxClose ==
    /\ MxIdle
    /\ mxOps < MaxMinerOps
    /\ npu_
    /\ close
    /\ mxOps' = mxOps + 1
    /\ mxCall' = NoCall
    /\ UNCHANGED <<npuEnabled_, hashesCompleted_, mxPc, mxGolden, startTime_>>
    /\ MxFrame

\* readings of std::chrono::steady_clock, in seconds since boot: the one
\* startMining takes, and those the hash rate getters take
StartReadings == {5}
SteadyReadings == {5, 9}

\* the (bigCores, littleCores) of the switch in startMining
coresOfIntensity(intensity) ==
    IF intensity = LIGHT THEN 2 ELSE IF intensity = MEDIUM THEN 4 ELSE 8

\* if (mining_.load()) return true
alreadyMining(mining) == mining

\* MobileXMiner::startMining(intensity) reading the clock as now and returning
\* result; without arm64_ the configure call dereferences null
startMining(intensity, now, result) ==
    IF alreadyMining(mining_)
    THEN /\ result = TRUE
         /\ UNCHANGED <<mining_, hashesCompleted_, startTime_, mxPc, hsVars>>
    ELSE IF intensity \notin {LIGHT, MEDIUM, FULL}
    THEN /\ result = FALSE
         /\ UNCHANGED <<mining_, hashesCompleted_, startTime_, mxPc, hsVars>>
    ELSE IF ~arm64_
    THEN /\ result = FALSE
         /\ mxPc' = "crashed"
         /\ UNCHANGED <<mining_, hashesCompleted_, startTime_, hsVars>>
    ELSE /\ result = TRUE
         /\ activeCores_' = configureHeterogeneousCores(
                                activeCores_, activeCoresSize, topology_,
                                coresOfIntensity(intensity), coresOfIntensity(intensity))
         /\ schedLastOp' = [op |-> "configure", big |-> coresOfIntensity(intensity),
                            little |-> coresOfIntensity(intensity)]
         /\ mining_' = TRUE
         /\ startTime_' = now
         /\ hashesCompleted_' = 0
         /\ UNCHANGED <<mxPc, topology_, activeCoresSize, currentIntensity_, schedInits>>

MxStartMining ==
    /\ MxIdle
    /\ mxOps < MaxMinerOps
    /\ mxOps' = mxOps + 1
    /\ \E intensity \in {DISABLED, LIGHT, MEDIUM, FULL}, now \in StartReadings,
          result \in BOOLEAN :
          startMining(intensity, now, result)
    /\ mxCall' = NoCall
    /\ UNCHANGED <<npuEnabled_, mxGolden, engineVars, npuVars>>
    /\ MxFrame

\* MobileXMiner::stopMining()
stopMining == mining_' = FALSE

MxStopMining ==
    /\ MxIdle
    /\ mxOps < MaxMinerOps
    /\ mxOps' = mxOps + 1
    /\ stopMining
    /\ mxCall' = [NoCall EXCEPT !.afterStop = TRUE]
    /\ UNCHANGED <<npuEnabled_, hashesCompleted_, mxPc, mxGolden, engineVars, npuVars, hsVars,
                   startTime_>>
    /\ MxFrame

\* getHashRate() reading the clock as now: hashes per second as a fraction
getHashRate(now) ==
    LET elapsed == now - startTime_
    IN IF elapsed <= 0 THEN [num |-> 0, den |-> 1]
       ELSE [num |-> hashesCompleted_, den |-> elapsed]

\* getRandomXHashRate(): getHashRate() * 0.7
getRandomXHashRate(now) ==
    [num |-> 7 * getHashRate(now).num, den |-> 10 * getHashRate(now).den]

\* getMobileXHashRate(): getHashRate() * 0.3
getMobileXHashRate(now) ==
    [num |-> 3 * getHashRate(now).num, den |-> 10 * getHashRate(now).den]

MxSetNPUEnabled ==
    /\ MxIdle
    /\ mxOps < MaxMinerOps
    /\ mxOps' = mxOps + 1
    /\ \E enabled \in BOOLEAN : npuEnabled_' = enabled
    /\ mxCall' = NoCall
    /\ UNCHANGED <<mining_, hashesCompleted_, mxPc, mxGolden, engineVars, npuVars, hsVars,
                   startTime_>>
    /\ MxFrame

MxHashFrame == UNCHANGED <<mining_, npuEnabled_, mxOps, engineVars, hsVars, startTime_>>

\* computeMobileXHash(headerBytes): if (!randomxVM_) return 32 zero bytes;
\* serializeBlockHeader
MxCall ==
    /\ MxIdle
    /\ hashesCompleted_ < MaxHashes
    /\ \E header \in Headers :
        LET call == [NoCall EXCEPT !.header = header, !.vm = randomxVM_,
                                   !.c0 = hashesCompleted_, !.npuEnabled = npuEnabled_,
                                   !.afterStop = mxCall.afterStop]
        IN IF vmMissing(randomxVM_)
           THEN MxReturn(call, ZeroHash)
           ELSE /\ mxCall' = call
                /\ mxPc' = "preprocess"
                /\ UNCHANGED mxGolden
    /\ UNCHANGED <<mining_, npuEnabled_, hashesCompleted_, mxOps, engineVars, hsVars, npuVars,
                   startTime_>>
    /\ MxFrame

\* preprocessed = arm64_->vectorHash(serialized) when arm64_ has NEON
MxPreprocess ==
    /\ mxPc = "preprocess"
    /\ mxCall' = [mxCall EXCEPT
                    !.work = [NoHash EXCEPT !.input = IF arm64_ THEN vectorHash(mxCall.header)
                                                       ELSE mxCall.header],
                    !.trace = Append(@, "preprocess")]
    /\ mxPc' = "inner"
    /\ UNCHANGED <<hashesCompleted_, mxGolden, npuVars>>
    /\ MxHashFrame
    /\ MxFrame

\* vmOutput = randomx_calc_hash(vm, preprocessed)
MxInnerHash ==
    /\ mxPc = "inner"
    /\ mxCall' = [mxCall EXCEPT !.work = randomx_calc_hash(randomxCache_, mxCall.work.input),
                                !.trace = Append(@, "inner hash")]
    /\ mxPc' = "mix"
    /\ UNCHANGED <<hashesCompleted_, mxGolden, npuVars>>
    /\ MxHashFrame
    /\ MxFrame

\* mixed = applyMobileMixing(vmOutput)
MxMix ==
    /\ mxPc = "mix"
    /\ mxCall' = [mxCall EXCEPT !.work = applyMobileMixing(mxCall.work),
                                !.trace = Append(@, "mobile mix")]
    /\ mxPc' = "count"
    /\ UNCHANGED <<hashesCompleted_, mxGolden, npuVars>>
    /\ MxHashFrame
    /\ MxFrame

\* hashesCompleted_.fetch_add(1)
MxCount ==
    /\ mxPc = "count"
    /\ hashesCompleted_' = hashesCompleted_ + 1
    /\ mxCall' = [mxCall EXCEPT !.trace = Append(@, "counter increment")]
    /\ mxPc' = "decide"
    /\ UNCHANGED <<mxGolden, npuVars>>
    /\ MxHashFrame
    /\ MxFrame

\* if (shouldRunNPU()) runNPUStep(); otherwise return mixed
MxDecide ==
    /\ mxPc = "decide"
    /\ IF shouldRunNPU
       THEN /\ mxCall' = [mxCall EXCEPT !.trace = Append(@, "npu decision")]
            /\ mxPc' = "npu"
            /\ UNCHANGED mxGolden
       ELSE MxReturn([mxCall EXCEPT !.trace = Append(@, "npu decision")], mxCall.work)
    /\ UNCHANGED <<hashesCompleted_, npuVars>>
    /\ MxHashFrame
    /\ MxFrame

\* runNPUStep(): processNeuralStep(vmState, npuResult); on success the skip
\* read from the first four result bytes is added to the counter; return mixed
MxNpuStep ==
    /\ mxPc = "npu"
    /\ \E nnapi \in NnapiOutcomes, secondPassed \in BOOLEAN :
        executeConvolutionOn(stateToTensor, nnapi, secondPassed)
    /\ npuOps' = npuOps + 1
    /\ UNCHANGED <<npu_, primaryAdapter_, fallbackAdapter_, npuAvailable_>>
    /\ IF ~npuLastExec'.ok
       THEN UNCHANGED hashesCompleted_
       ELSE IF npuLastExec'.out.shape = <<32, 32, 1>>
       THEN \E stateHash \in StateDigests :
                hashesCompleted_' = hashesCompleted_ + fallbackSkip(hashesCompleted_, stateHash)
       ELSE \E skip \in PlatformSkips : hashesCompleted_' = hashesCompleted_ + skip
    /\ MxReturn([mxCall EXCEPT !.ranNpu = TRUE, !.trace = Append(@, "npu step")], mxCall.work)
    /\ MxHashFrame
    /\ MxFrame

MxInit ==
    /\ arm64_ = FALSE
    /\ randomxVM_ = FALSE
    /\ randomxCache_ = "none"
    /\ mining_ = FALSE
    /\ npuEnabled_ = TRUE
    /\ hashesCompleted_ = 0
    /\ mxPc = "idle"
    /\ mxCall = NoCall
    /\ mxGolden = [recorded |-> FALSE, header |-> <<>>, result |-> NoHash]
    /\ mxOps = 0
    /\ startTime_ = 0

NextMiner ==
    \/ MxInitialize \/ MxClose \/ MxStartMining \/ MxStopMining \/ MxSetNPUEnabled
    \/ MxCall \/ MxPreprocess \/ MxInnerHash \/ MxMix \/ MxCount \/ MxDecide \/ MxNpuStep

(* Several threads calling computeMobileXHash on one initialised miner. The
   stages before the counter are local to the calling thread. *)

MtFrame ==
    UNCHANGED <<pmVars, tmVars, hVars, ntVars, tvVars, runVars, jniVars, permVars, hashVars>>

\* a thread starts a call once the VM exists and computes preprocess, inner
\* hash and mobile mix
MtHash(w) ==
    /\ mtPc[w] = "idle"
    /\ randomxVM_
    /\ hashesCompleted_ + Cardinality({v \in Workers : mtPc[v] = "count"}) < MaxHashes
    /\ mtPc' = [mtPc EXCEPT ![w] = "count"]
    /\ UNCHANGED <<npuSteps, mxVars, engineVars, hsVars, npuVars>>
    /\ MtFrame

\* hashesCompleted_.fetch_add(1)
MtCount(w) ==
    /\ mtPc[w] = "count"
    /\ hashesCompleted_' = hashesCompleted_ + 1
    /\ mtPc' = [mtPc EXCEPT ![w] = "decide"]
    /\ UNCHANGED <<npuSteps, mining_, npuEnabled_, mxPc, mxCall, mxGolden, mxOps, startTime_,
                   engineVars, hsVars, npuVars>>
    /\ MtFrame

\* if (shouldRunNPU()), which loads the counter again
MtDecide(w) ==
    /\ mtPc[w] = "decide"
    /\ mtPc' = [mtPc EXCEPT ![w] = IF shouldRunNPU THEN "npu" ELSE "idle"]
    /\ UNCHANGED <<npuSteps, mxVars, engineVars, hsVars, npuVars>>
    /\ MtFrame

\* runNPUStep() with an output whose first four bytes give skip 0
MtNpuStep(w) ==
    /\ mtPc[w] = "npu"
    /\ \E nnapi \in NnapiOutcomes, secondPassed \in BOOLEAN :
        executeConvolutionOn(stateToTensor, nnapi, secondPassed)
    /\ npuOps' = npuOps + 1
    /\ npuSteps' = npuSteps + 1
    /\ mtPc' = [mtPc EXCEPT ![w] = "idle"]
    /\ UNCHANGED <<npu_, primaryAdapter_, fallbackAdapter_, npuAvailable_>>
    /\ UNCHANGED <<mxVars, engineVars, hsVars>>
    /\ MtFrame

\* initialize() called while no thread is hashing
MtInitialize ==
    /\ \A w \in Workers : mtPc[w] = "idle"
    /\ MxInitialize

MtInit ==
    /\ mtPc = [w \in Workers |-> "idle"]
    /\ npuSteps = 0

NextHashThreads ==
    \/ MtInitialize
    \/ \E w \in Workers : MtHash(w)
    \/ \E w \in Workers : MtCount(w)
    \/ \E w \in Workers : MtDecide(w)
    \/ \E w \in Workers : MtNpuStep(w)

----------------------------------------------------------------------------
(* ThermalVerification (thermal_verification.cpp): proof generation,        *)
(* validation and cheat detection.  Its temperatures are whole degrees      *)
(* Celsius.  The first 8 bytes of a SHA-256 digest are an unsigned 64-bit   *)
(* number the model does not compute: tvSha records the number of every     *)
(* input hashed so far, a new input gets a number no other input has.  The  *)
(* numbers are counted in units of 2^44, which double represents exactly.   *)

MaxProofOps == 2        \* generateThermalProof/validateThermalProof calls per run
MinProofs == 9          \* shortest proof window given to detectThermalCheating
MaxProofs == 12         \* longest proof window given to detectThermalCheating

Min(a, b) == IF a < b THEN a ELSE b

\* 2^64 in units of 2^44
Uint64Units == 1048576

\* first 8 bytes of the digests, in units of 2^44
DigestValues == {400000, 410000, 1000000}

\* a proof value no generateThermalProof call returned
ForgedProof == 123456

\* header bytes given to generateThermalProof and validateThermalProof
ProofHeaders == {[k \in 1..40 |-> 0], [k \in 1..40 |-> 1], [k \in 1..16 |-> 0]}

\* what one run measures: endCycles - startCycles and the elapsed microseconds
Measurements ==
    {[cycleDelta |-> 400000, elapsedMicros |-> 200],
     [cycleDelta |-> 404000, elapsedMicros |-> 202],
     [cycleDelta |-> 600000, elapsedMicros |-> 200]}

\* temperatures given to updateTemperature
ProofTemperatures == {40, 50}

\* tolerances given to setTolerancePercent
Tolerances == {0, 5}

\* calculateExpectedCycles(workloadSize) at the current temperature
calculateExpectedCycles(workloadSize, temp) ==
    LET baseCycles == workloadSize * 100
    IN IF temp > 45 THEN (baseCycles * (100 + ((temp - 45) * 2))) \div 100
       ELSE IF temp < 35 THEN (baseCycles * (100 - (35 - temp))) \div 100
       ELSE baseCycles

\* the ThermalProof generateThermalProof fills in (the timestamp is left out)
ThermalProofFor(headerBytes, m, temp) ==
    LET testWorkload == SubSeq(headerBytes, 1, Min(Len(headerBytes), 32))
    IN [cycleCount |-> m.cycleDelta,
        expectedCycles |-> calculateExpectedCycles(Len(testWorkload), temp),
        frequency |-> m.cycleDelta \div m.elapsedMicros,
        temperature |-> temp,
        workHash |-> [len |-> 32, stage |-> "sha256", input |-> headerBytes,
                      cache |-> "none"]]

\* the 32 bytes encodeProof hashes
PackedProof(proof) ==
    [cycleCount |-> proof.cycleCount, expectedCycles |-> proof.expectedCycles,
     frequency |-> proof.frequency, tempInt |-> proof.temperature * 100]

\* encodeProof(proof) returns v
encodeProof(sha, proof, v) ==
    IF \E r \in sha : r.data = PackedProof(proof)
    THEN \E r \in sha : r.data = PackedProof(proof) /\ r.value = v
    ELSE v \in DigestValues \ {r.value : r \in sha}

\* serializeHeaderForThermalValidation(headerBytes)
serializeHeaderForThermalValidation(headerBytes) ==
    IF Len(headerBytes) >= 8 THEN SubSeq(headerBytes, 1, Len(headerBytes) - 8)
    ELSE headerBytes

\* generateThermalProof(headerBytes) measuring m and returning v
generateThermalProof(headerBytes, m, v) ==
    LET proof == ThermalProofFor(headerBytes, m, currentTemperature_)
    IN /\ encodeProof(tvSha, proof, v)
       /\ tvSha' = tvSha \cup {[data |-> PackedProof(proof), value |-> v]}
       /\ thermalHistory_' = addToHistory(thermalHistory_, proof, MAX_HISTORY_SIZE)

\* static_cast<uint64_t>(expectedProof + toleranceRange), times 100: the cast
\* of a double of 2^64 or more is undefined
maxAcceptable100(expectedProof, tolerance) ==
    IF expectedProof * (100 + tolerance) < 100 * Uint64Units
    THEN {expectedProof * (100 + tolerance)}
    ELSE {100 * (Uint64Units - 1), 100 * (Uint64Units \div 2), 0}

\* static_cast<uint64_t>(expectedProof - toleranceRange), times 100
minAcceptable100(expectedProof, tolerance) == expectedProof * (100 - tolerance)

NoProof == [valid |-> FALSE, header |-> <<>>, value |-> 0, frequency |-> 0]
NoProofOp == [op |-> "none", header |-> <<>>, thermalProof |-> 0, expectedProof |-> 0,
              accepted |-> FALSE]

TvFrame == UNCHANGED <<pmVars, tmVars, npuVars, ntVars, hsVars, engineVars, mxVars, runVars, jniVars, permVars, hashVars, mtVars>>

\* a caller's generateThermalProof(headerBytes)
TvGenerate ==
    /\ tvOps < MaxProofOps
    /\ \E headerBytes \in ProofHeaders, m \in Measurements, v \in DigestValues :
          /\ generateThermalProof(headerBytes, m, v)
          /\ tvIssued' = [valid |-> TRUE, header |-> headerBytes, value |-> v,
                          frequency |-> m.cycleDelta \div m.elapsedMicros]
          /\ tvLast' = [op |-> "generate", header |-> headerBytes, thermalProof |-> v,
                        expectedProof |-> v, accepted |-> FALSE]
    /\ tvOps' = tvOps + 1
    /\ UNCHANGED <<currentTemperature_, tolerancePercent_, baseFrequency_, tvDetect>>
    /\ UNCHANGED <<hPolls, hProofs, hPhase>>
    /\ TvFrame

\* validateThermalProof(thermalProof, headerBytes)
TvValidate ==
    /\ tvOps < MaxProofOps
    /\ \E thermalProof \in {r.value : r \in tvSha} \cup {ForgedProof},
          headerBytes \in ProofHeaders, m \in Measurements,
          expectedProof \in DigestValues :
          /\ generateThermalProof(serializeHeaderForThermalValidation(headerBytes), m,
                                  expectedProof)
          /\ \E maxAcceptable \in maxAcceptable100(expectedProof, tolerancePercent_) :
                tvLast' = [op |-> "validate", header |-> headerBytes,
                           thermalProof |-> thermalProof, expectedProof |-> expectedProof,
                           accepted |->
                               /\ thermalProof * 100
                                      >= minAcceptable100(expectedProof, tolerancePercent_)
                               /\ thermalProof * 100 <= maxAcceptable]
    /\ tvOps' = tvOps + 1
    /\ UNCHANGED <<currentTemperature_, tolerancePercent_, baseFrequency_, tvIssued, tvDetect>>
    /\ UNCHANGED <<hPolls, hProofs, hPhase>>
    /\ TvFrame

\* updateTemperature(temperature)
TvUpdateTemperature ==
    /\ \E temperature \in ProofTemperatures : currentTemperature_' = temperature
    /\ tvIssued' = NoProof
    /\ UNCHANGED <<tolerancePercent_, baseFrequency_, tvSha, tvLast, tvOps, tvDetect>>
    /\ UNCHANGED hVars
    /\ TvFrame

\* setTolerancePercent(tolerance)
TvSetTolerancePercent ==
    /\ \E tolerance \in Tolerances : tolerancePercent_' = tolerance
    /\ tvIssued' = NoProof
    /\ UNCHANGED <<currentTemperature_, baseFrequency_, tvSha, tvLast, tvOps, tvDetect>>
    /\ UNCHANGED hVars
    /\ TvFrame

\* temperatures of the proofs given to detectThermalCheating
ColdSample == 40
HotSample == 60
MaxHot == 2             \* samples at HotSample in one window

\* thresholds given to detectThermalCheating
Thresholds == {2, 10}

\* sum of the temperatures from proof j on
RECURSIVE SumTemperatures(_, _)
SumTemperatures(proofs, j) ==
    IF j > Len(proofs) THEN 0
    ELSE proofs[j].temperature + SumTemperatures(proofs, j + 1)

\* N * (temperature - mean) of proof j, sum being the sum of the temperatures
Deviation(proofs, j, sum) == (Len(proofs) * proofs[j].temperature) - sum

\* N^2 * variance, summed from proof j on
RECURSIVE SumSquares(_, _, _)
SumSquares(proofs, j, sum) ==
    IF j > Len(proofs) THEN 0
    ELSE (Deviation(proofs, j, sum) * Deviation(proofs, j, sum))
         + SumSquares(proofs, j + 1, sum)

\* zScore > threshold for proof j: |t - mean| / stdDev > threshold, squared and
\* multiplied out, squares being N^3 * stdDev^2; stdDev = 0 makes the quotient
\* NaN, which is above nothing
zScoreAbove(proofs, j, threshold, sum, squares) ==
    IF squares = 0 THEN FALSE
    ELSE (Deviation(proofs, j, sum) * Deviation(proofs, j, sum)) * Len(proofs)
            > (threshold * threshold) * squares

\* proofs.size() < 10, read as <= 10
tooFewProofs_inclusive(n) == n <= 10

\* if (proofs.size() < 10)
tooFewProofs(n) == n < 10

\* the loop pushing the 0-based indices of the outliers, from proof j on
RECURSIVE OutliersFrom(_, _, _, _, _)
OutliersFrom(proofs, j, threshold, sum, squares) ==
    IF j > Len(proofs) THEN <<>>
    ELSE (IF zScoreAbove(proofs, j, threshold, sum, squares) THEN <<j - 1>> ELSE <<>>)
         \o OutliersFrom(proofs, j + 1, threshold, sum, squares)

detectThermalCheating(proofs, threshold) ==
    IF tooFewProofs(Len(proofs)) THEN <<>>
    ELSE LET sum == SumTemperatures(proofs, 1)
             squares == SumSquares(proofs, 1, sum)
         IN OutliersFrom(proofs, 1, threshold, sum, squares)

NoDetect == [called |-> FALSE, proofs |-> <<>>, proofsAfter |-> <<>>, threshold |-> 0,
             outliers |-> <<>>, historyBefore |-> <<>>]

\* detectThermalCheating(proofs, threshold), a const method; the window holds
\* at most MaxHot samples at the higher temperature
TvDetect ==
    /\ \E n \in MinProofs..MaxProofs, threshold \in Thresholds :
          \E hot \in {h \in SUBSET (1..n) : Cardinality(h) <= MaxHot} :
             LET proofs == [i \in 1..n |->
                              [temperature |-> IF i \in hot THEN HotSample ELSE ColdSample]]
             IN tvDetect' = [called |-> TRUE, proofs |-> proofs, proofsAfter |-> proofs,
                             threshold |-> threshold,
                             outliers |-> detectThermalCheating(proofs, threshold),
                             historyBefore |-> thermalHistory_]
    /\ UNCHANGED <<currentTemperature_, tolerancePercent_, baseFrequency_,
                   tvSha, tvIssued, tvLast, tvOps>>
    /\ UNCHANGED hVars
    /\ TvFrame

\* ThermalVerification(baseFreq = 2000, tolerance = 5.0)
TvInit ==
    /\ currentTemperature_ = 40
    /\ tolerancePercent_ = 5
    /\ baseFrequency_ = 2000
    /\ tvSha = {}
    /\ tvIssued = NoProof
    /\ tvLast = NoProofOp
    /\ tvOps = 0
    /\ tvDetect = NoDetect

NextProof == TvGenerate \/ TvValidate \/ TvUpdateTemperature \/ TvSetTolerancePercent
NextDetect == TvDetect

----------------------------------------------------------------------------
(* AndroidMobileXMiner and the JNI functions of MiningEngine, called from one
   Java thread. The handle is 0 or the address of the live engine, written 1.
   The engine owns a MobileXMiner (the miner state above), a
   ThermalVerification (currentTemperature_), and an ARM64Optimizer of its own
   whose scheduler runs on the same device as the miner's, so that its
   activation engineActiveCores is computed over the same topology. *)

MaxJniCalls == 4

\* the jint values passed as intensity
JniIntensities == {0, 1, 2, 3, 7}

\* the handles a caller holds: zero, and the one createMiner returned
minerPtrs == IF liveMiner THEN {0, 1} ELSE {0}

\* AndroidMobileXMiner::configureHeterogeneousCores(intensity) taking LIGHT as MEDIUM
coresForIntensity_lightAsMedium(intensity) ==
    IF intensity \in {LIGHT, MEDIUM} THEN 4
    ELSE IF intensity = FULL THEN 8
    ELSE 0

\* AndroidMobileXMiner::configureHeterogeneousCores(intensity): the count
\* passed for both classes
coresForIntensity(intensity) ==
    IF intensity = LIGHT THEN 2
    ELSE IF intensity = MEDIUM THEN 4
    ELSE IF intensity = FULL THEN 8
    ELSE 0

\* every function returning 0 for a zero handle
zeroHandleResult_allZero(op) == 0

\* what each function returns when minerPtr == 0 (JNI_FALSE is 0)
zeroHandleResult(op) == IF op = "getCurrentTemperature" THEN 30 ELSE 0

\* the call just made: a double is num / den, every other result is num
JniReturn(op, minerPtr, intensity, num, den) ==
    /\ jniLast' = [op |-> op, minerPtr |-> minerPtr, intensity |-> intensity,
                   num |-> num, den |-> den]
    /\ jniCalls' = jniCalls + 1

JniFrame == UNCHANGED <<pmVars, tmVars, hVars, ntVars, runVars, permVars, hashVars, mtVars>>

TvRest == <<tolerancePercent_, baseFrequency_, tvSha, tvIssued, tvLast, tvOps, tvDetect>>

\* createMiner: new AndroidMobileXMiner() and initialize(); an exception or a
\* failed initialize() gives the zero handle and no engine
JniCreateMiner ==
    /\ jniCalls < MaxJniCalls
    /\ ~liveMiner
    /\ \/ /\ initialize
          /\ mining_' = FALSE
          /\ hashesCompleted_' = 0
          /\ startTime_' = 0
          /\ npuEnabled_' = TRUE
          /\ mxPc' = "idle"
          /\ mxCall' = NoCall
          /\ currentTemperature_' \in ProofTemperatures
          /\ liveMiner' = TRUE
          /\ is_mining_' = FALSE
          /\ current_intensity_' = MEDIUM
          /\ engineActiveCores' = {}
          /\ npu_available_' \in BOOLEAN
          /\ JniReturn("createMiner", 0, 0, 1, 1)
          /\ UNCHANGED <<mxGolden, mxOps>>
       \/ /\ JniReturn("createMiner", 0, 0, 0, 1)
          /\ UNCHANGED <<liveMiner, is_mining_, current_intensity_, engineActiveCores,
                         npu_available_, mxVars, engineVars, npuVars, hsVars,
                         currentTemperature_>>
    /\ UNCHANGED TvRest
    /\ JniFrame

\* destroyMiner: delete runs ~AndroidMobileXMiner (stopMining() if mining) and
\* ~MobileXMiner (close())
JniDestroyMiner ==
    /\ jniCalls < MaxJniCalls
    /\ \E minerPtr \in minerPtrs :
          /\ IF minerPtr = 0
             THEN UNCHANGED <<liveMiner, is_mining_, mining_, engineVars, npuVars, hsVars,
                              engineActiveCores>>
             ELSE /\ close
                  /\ is_mining_' = FALSE
                  /\ liveMiner' = FALSE
                  /\ engineActiveCores' = {}
          /\ JniReturn("destroyMiner", minerPtr, 0, 0, 1)
    /\ UNCHANGED <<current_intensity_, npu_available_, npuEnabled_, hashesCompleted_, mxPc,
                   mxCall, mxGolden, mxOps, startTime_, tvVars>>
    /\ JniFrame

\* startMining(minerPtr, intensity) and AndroidMobileXMiner::startMining
JniStartMining ==
    /\ jniCalls < MaxJniCalls
    /\ \E minerPtr \in minerPtrs, intensity \in JniIntensities :
          IF minerPtr = 0
          THEN /\ JniReturn("startMining", minerPtr, intensity, zeroHandleResult("startMining"), 1)
               /\ UNCHANGED <<is_mining_, current_intensity_, engineActiveCores, mining_,
                              hashesCompleted_, startTime_, mxPc, hsVars>>
          ELSE IF is_mining_
          THEN /\ JniReturn("startMining", minerPtr, intensity, 1, 1)
               /\ UNCHANGED <<is_mining_, current_intensity_, engineActiveCores, mining_,
                              hashesCompleted_, startTime_, mxPc, hsVars>>
          ELSE /\ current_intensity_' = intensity
               /\ engineActiveCores' =
                      configureHeterogeneousCores(engineActiveCores, activeCoresSize, topology_,
                                                  coresForIntensity(intensity),
                                                  coresForIntensity(intensity))
               /\ \E now \in StartReadings, result \in BOOLEAN :
                     /\ startMining(intensity, now, result)
                     /\ is_mining_' = result
                     /\ JniReturn("startMining", minerPtr, intensity,
                                  IF result THEN 1 ELSE 0, 1)
    /\ UNCHANGED <<liveMiner, npu_available_, npuEnabled_, mxCall, mxGolden, mxOps,
                   engineVars, npuVars, tvVars>>
    /\ JniFrame

\* stopMining(minerPtr) and AndroidMobileXMiner::stopMining
JniStopMining ==
    /\ jniCalls < MaxJniCalls
    /\ \E minerPtr \in minerPtrs :
          IF minerPtr = 0
          THEN /\ JniReturn("stopMining", minerPtr, 0, zeroHandleResult("stopMining"), 1)
               /\ UNCHANGED <<is_mining_, mining_>>
          ELSE /\ IF is_mining_
                  THEN stopMining /\ is_mining_' = FALSE
                  ELSE UNCHANGED <<is_mining_, mining_>>
               /\ JniReturn("stopMining", minerPtr, 0, 1, 1)
    /\ UNCHANGED <<liveMiner, current_intensity_, engineActiveCores, npu_available_,
                   npuEnabled_, hashesCompleted_, mxPc, mxCall, mxGolden, mxOps, startTime_,
                   engineVars, npuVars, hsVars, tvVars>>
    /\ JniFrame

\* the functions that only read
JniQueries == {"getHashRate", "getRandomXHashRate", "getMobileXHashRate",
               "getCurrentTemperature", "getNPUUtilization", "isMining",
               "generateThermalProof", "configureNPU"}

\* what a reading function returns for a live engine, the clock read as now
\* and a proof measured as digest; the engine's NPU has executed nothing
queryResult(op, now, digest) ==
    IF op = "getHashRate" THEN getHashRate(now)
    ELSE IF op = "getRandomXHashRate" THEN getRandomXHashRate(now)
    ELSE IF op = "getMobileXHashRate" THEN getMobileXHashRate(now)
    ELSE IF op = "getCurrentTemperature" THEN [num |-> currentTemperature_, den |-> 1]
    ELSE IF op = "isMining" THEN [num |-> IF is_mining_ THEN 1 ELSE 0, den |-> 1]
    ELSE IF op = "generateThermalProof" THEN [num |-> digest, den |-> 1]
    ELSE [num |-> 0, den |-> 1]

\* getHashRate, getRandomXHashRate, getMobileXHashRate, getCurrentTemperature,
\* getNPUUtilization, isMining, generateThermalProof and configureNPU
JniQuery ==
    /\ jniCalls < MaxJniCalls
    /\ \E op \in JniQueries, minerPtr \in minerPtrs :
          IF minerPtr = 0
          THEN JniReturn(op, minerPtr, 0, zeroHandleResult(op), 1)
          ELSE \E now \in SteadyReadings, digest \in DigestValues :
                  /\ now >= startTime_
                  /\ JniReturn(op, minerPtr, 0, queryResult(op, now, digest).num,
                               queryResult(op, now, digest).den)
    /\ UNCHANGED <<liveMiner, is_mining_, current_intensity_, engineActiveCores,
                   npu_available_, mxVars, engineVars, npuVars, hsVars, tvVars>>
    /\ JniFrame

JniInit ==
    /\ liveMiner = FALSE
    /\ is_mining_ = FALSE
    /\ current_intensity_ = MEDIUM
    /\ engineActiveCores = {}
    /\ npu_available_ = FALSE
    /\ jniLast = [op |-> "none", minerPtr |-> 0, intensity |-> 0, num |-> 0, den |-> 1]
    /\ jniCalls = 0

NextEngine ==
    JniCreateMiner \/ JniDestroyMiner \/ JniStartMining \/ JniStopMining \/ JniQuery

----------------------------------------------------------------------------
(* Specifications: one per component, each over the whole state *)

Init == PmInit /\ TmInit /\ HInit /\ NpuInit /\ NtInit /\ HsInit /\ MxInit /\ TvInit /\ JniInit /\ PermInit /\ VhInit /\ MtInit

SpecPower == Init /\ [][NextPower]_vars
SpecThermal == Init /\ [][NextThermal]_vars
SpecHistory == Init /\ [][NextHistory]_vars
SpecNPU == Init /\ [][NextNPU]_vars
SpecNpuThreads == Init /\ [][NextNpuThreads]_vars
SpecScheduler == Init /\ [][NextScheduler]_vars
SpecMiner == Init /\ [][NextMiner]_vars
SpecProof == Init /\ [][NextProof]_vars
SpecDetect == Init /\ [][NextDetect]_vars
SpecEngine == Init /\ [][NextEngine]_vars
SpecPermission == Init /\ [][NextPermission]_vars
SpecHash == Init /\ [][NextHash]_vars
SpecHashThreads == Init /\ [][NextHashThreads]_vars

Next == NextPower \/ NextThermal \/ NextHistory \/ NextNPU \/ NextNpuThreads \/ NextScheduler \/ NextMiner
        \/ NextProof \/ NextDetect \/ NextEngine \/ NextPermission \/ NextHash \/ NextHashThreads
Spec == Init /\ [][Next]_vars

----------------------------------------------------------------------------
(* Properties of the policy controller (SpecPower) *)

\* the start conditions of section 4.3 on given readings
StartConditions(battery, charging, temp) ==
    charging /\ battery >= 80 /\ temp < 50000

\* the decision table of section 4.3
DecisionTable(battery, charging, temp) ==
    IF ~charging THEN DISABLED
    ELSE IF battery < 80 THEN DISABLED
    ELSE IF temp > 45000 THEN LIGHT
    ELSE IF battery > 95 /\ temp < 40000 THEN FULL
    ELSE IF battery > 85 THEN MEDIUM
    ELSE LIGHT

\* the decision table with the 50 degree cut-off of the start conditions
DecisionTableBelow50(battery, charging, temp) ==
    IF ~charging THEN DISABLED
    ELSE IF battery < 80 THEN DISABLED
    ELSE IF temp >= 50000 THEN DISABLED
    ELSE IF temp > 45000 THEN LIGHT
    ELSE IF battery > 95 /\ temp < 40000 THEN FULL
    ELSE IF battery > 85 THEN MEDIUM
    ELSE LIGHT

\* the readings were stored by updatePowerState() and no override followed
PolicyAsserted == pmLastOp \in {"initialize", "updatePowerState"}

\* C1 (as stated): once updatePowerState() has stored the readings,
\* determineOptimalIntensity() returns the value of the section 4.3 table.
C1_DecisionTableExact ==
    PolicyAsserted =>
        determineOptimalIntensity = DecisionTable(batteryLevel_, isCharging_, pm_currentTemp_)

\* C1 (amended): once updatePowerState() has stored the readings,
\* determineOptimalIntensity() returns the value of the table extended by
\* "DISABLED if tempC >= 50" ahead of the LIGHT row.
C1_DecisionTableBelow50 ==
    PolicyAsserted =>
        determineOptimalIntensity =
            DecisionTableBelow50(batteryLevel_, isCharging_, pm_currentTemp_)

\* charging at 80 % or more and 50 degrees or more: DISABLED, not LIGHT
C1_Witness ==
    /\ pmLastOp = "updatePowerState"
    /\ isCharging_ /\ batteryLevel_ >= 80 /\ pm_currentTemp_ >= 50000
    /\ determineOptimalIntensity = DISABLED

\* C2 (as stated): in every reachable state canStartMining() is true iff the
\* stored readings satisfy charging, batteryPct >= 80 and tempC < 50.
C2_CanStartIffReadings ==
    canStartMining <=> StartConditions(batteryLevel_, isCharging_, pm_currentTemp_)

\* C2 (amended): canStartMining() is true iff the stored readings satisfy the
\* start conditions in every state whose latest operation is the constructor,
\* initialize() or updatePowerState(); after setMiningAllowed(x) it is x.
C2_CanStartUnlessOverridden ==
    /\ pmLastOp \in {"constructed", "initialize", "updatePowerState"} =>
         (canStartMining <=> StartConditions(batteryLevel_, isCharging_, pm_currentTemp_))
    /\ pmLastOp = "setMiningAllowed(true)" => canStartMining
    /\ pmLastOp = "setMiningAllowed(false)" => ~canStartMining

\* the readings sit on the boundary of the start conditions and mining may start
C2_Witness ==
    /\ pmLastOp = "updatePowerState"
    /\ isCharging_ /\ batteryLevel_ = 80 /\ pm_currentTemp_ = 49900
    /\ canStartMining

\* a start condition is lost on the stored readings
StartConditionLost == ~isCharging_ \/ batteryLevel_ < 80 \/ pm_currentTemp_ >= 50000

\* C3 (as stated): shouldStopMining() is true whenever a start condition is
\* lost on the stored readings, also after setMiningAllowed(true).
C3_StopOnLostCondition == StartConditionLost => shouldStopMining

\* C3 (amended): shouldStopMining() is true whenever a start condition is
\* lost, unless the latest operation is setMiningAllowed(true); after that
\* override it is true exactly when batteryPct < 20 or tempC > 50.
C3_StopUnlessOverridden ==
    /\ (pmLastOp # "setMiningAllowed(true)" /\ StartConditionLost) => shouldStopMining
    /\ pmLastOp = "setMiningAllowed(true)" =>
         (shouldStopMining <=> (batteryLevel_ < 20 \/ pm_currentTemp_ > 50000))

\* the temperature reached exactly 50 degrees on a charged, charging device
C3_Witness ==
    /\ pmLastOp = "updatePowerState"
    /\ isCharging_ /\ batteryLevel_ >= 80 /\ pm_currentTemp_ = 50000
    /\ shouldStopMining

\* C4: the updatePowerState() that follows setMiningAllowed(x) sets
\* canStartMining() to the start conditions on the fresh readings, whatever x.
C4_PolicyReasserts ==
    [][ (/\ pmLastOp \in {"setMiningAllowed(true)", "setMiningAllowed(false)"}
         /\ pmLastOp' = "updatePowerState")
        => (canMine_' <=> StartConditions(batteryLevel_', isCharging_', pm_currentTemp_')) ]_vars

\* a tick after setMiningAllowed(true) withdrew the permission
C4_Witness ==
    /\ pmLastOp = "updatePowerState"
    /\ pmPrevOp = "setMiningAllowed(true)"
    /\ ~canStartMining

\* C34: determineOptimalIntensity() returns a non-DISABLED intensity only
\* when the stored readings have charging = true and battery >= 80, in every
\* reachable state, also after setMiningAllowed(true).
C34_OverrideCannotEnableOnBattery ==
    determineOptimalIntensity # DISABLED => (isCharging_ /\ batteryLevel_ >= 80)

\* the permission was forced on while the device ran on battery
C34_Witness ==
    /\ pmLastOp = "setMiningAllowed(true)"
    /\ canMine_
    /\ ~isCharging_
    /\ batteryLevel_ >= 80
    /\ determineOptimalIntensity = DISABLED

----------------------------------------------------------------------------
(* Properties of the thermal monitor (SpecThermal) *)

\* the threshold table of section 4.2, each state by its own condition
ThresholdTable(state, temp, throttle, max) ==
    /\ state = CRITICAL <=> temp >= max
    /\ state = THROTTLE <=> (throttle <= temp /\ temp < max)
    /\ state = NORMAL <=> temp < throttle

\* the same table with maxTemp taking precedence over throttleTemp
ThresholdTableMaxFirst(state, temp, throttle, max) ==
    /\ state = CRITICAL <=> temp >= max
    /\ state = THROTTLE <=> (throttle <= temp /\ temp < max)
    /\ state = NORMAL <=> (temp < throttle /\ temp < max)

\* C5 (as stated): whenever the temperature mutex is free the thermal state
\* is the threshold classification of the stored temperature under the stored
\* thresholds, NORMAL iff temp < throttleTemp.
C5_StateMatchesTable ==
    ~tempMutex_ => ThresholdTable(thermalState_, tm_currentTemp_, throttleTemp_, maxTemp_)

\* C5 (amended): whenever the temperature mutex is free the thermal state is
\* CRITICAL iff temp >= maxTemp, THROTTLE iff throttleTemp <= temp < maxTemp,
\* NORMAL iff temp < throttleTemp and temp < maxTemp.
C5_StateMatchesTableMaxFirst ==
    ~tempMutex_ =>
        ThresholdTableMaxFirst(thermalState_, tm_currentTemp_, throttleTemp_, maxTemp_)

\* limits given with throttleTemp above maxTemp while a polling thread runs:
\* 46 degrees is CRITICAL although it is below throttleTemp
C5_Witness ==
    /\ ~tempMutex_
    /\ throttleTemp_ > maxTemp_
    /\ tm_currentTemp_ >= maxTemp_ /\ tm_currentTemp_ < throttleTemp_
    /\ thermalState_ = CRITICAL
    /\ \E t \in TaskIds : task[t].pc \in {"check", "lock", "push"}

\* the transitions listed in section 4.2
ListedTransitions ==
    { <<NORMAL, THROTTLE>>, <<THROTTLE, CRITICAL>>,
      <<CRITICAL, THROTTLE>>, <<THROTTLE, NORMAL>> }

\* C6 (as stated): every change of ThermalState made by a poll is one of the
\* four listed transitions.
C6_OnlyListedTransitions ==
    tmLastChange.by = "poll" => <<tmLastChange.from, tmLastChange.to>> \in ListedTransitions

\* a poll runs updateThermalState() and leaves the lock scope
PollEvaluates ==
    \/ \E t \in TaskIds : task[t].pc = "eval" /\ task'[t].pc = "push"
    \/ \E c \in Callers : caller[c].pc = "upd_eval" /\ caller'[c].pc = "upd_push"

\* C6 (amended): every change of ThermalState made by a poll leads to the
\* class of the new reading (CRITICAL when reading >= maxTemp, else THROTTLE
\* when reading >= throttleTemp, else NORMAL), so besides the listed
\* transitions NORMAL -> CRITICAL and CRITICAL -> NORMAL occur.
C6_PollMovesToClassOfReading ==
    [][ PollEvaluates =>
          /\ thermalState_' = (IF tm_currentTemp_ >= maxTemp_ THEN CRITICAL
                               ELSE IF tm_currentTemp_ >= throttleTemp_ THEN THROTTLE
                               ELSE NORMAL)
          /\ thermalState_' # thermalState_ =>
                tmLastChange' = [by |-> "poll", from |-> thermalState_, to |-> thermalState_'] ]_vars

\* a poll moved the state from NORMAL straight to CRITICAL
C6_Witness ==
    tmLastChange = [by |-> "poll", from |-> NORMAL, to |-> CRITICAL]

\* the thresholds of the constructor with a reading of 46 degrees in place
DefaultsAt46 ==
    /\ ~tempMutex_
    /\ throttleTemp_ = 40000 /\ maxTemp_ = 45000
    /\ tm_currentTemp_ = 46000

\* C32 as stated: with the default thresholds (throttle 40, max 45) a polled
\* temperature of 46 degrees puts the thermal monitor in state THROTTLE.
C32_FortySixIsThrottle == DefaultsAt46 => thermalState_ = THROTTLE

\* C32 with the state of the threshold table: with the default thresholds a
\* polled temperature of 46 degrees puts the thermal monitor in state CRITICAL.
C32_FortySixIsCritical == DefaultsAt46 => thermalState_ = CRITICAL

\* a poll read 46 degrees under the default thresholds
C32_Witness ==
    /\ DefaultsAt46
    /\ thermalState_ = CRITICAL
    /\ tmLastChange.by = "poll"
    /\ tmLastChange.to = CRITICAL

\* C35: at most one polling task exists at any time, also when two threads
\* call startMonitoring() concurrently or startMonitoring() races with
\* stopMonitoring().
C35_AtMostOnePollingTask ==
    Cardinality({t \in TaskIds : task[t].pc \notin {"none", "ended"}}) <= 1

\* no thread is between the sensor read and the history push of
\* updateTemperature()
NoUpdateInProgress ==
    /\ \A c \in Callers : caller[c].pc \notin {"upd_lock", "upd_eval", "upd_push"}
    /\ \A t \in TaskIds : task[t].pc \notin {"lock", "eval", "push"}

\* C36: whenever no temperature update is in progress the newest entry of
\* the temperature history equals getCurrentTemperature(), also when the
\* initial read of initialize() runs concurrently with the polling task.
C36_NewestEntryIsCurrent ==
    (NoUpdateInProgress /\ temperatureHistory_ # <<>>) =>
        temperatureHistory_[Len(temperatureHistory_)] = tm_currentTemp_

\* C8: when stopMonitoring() has returned (and no startMonitoring() call has
\* begun since) the polling task has terminated and has been joined.
C8_StopJoinsTask ==
    stopQuiescent => \A t \in TaskIds : task[t].pc = "none"

----------------------------------------------------------------------------
(* Properties of the bounded histories (SpecHistory) *)

\* C7: TemperatureHistory and ThermalHistory never hold more than 1000
\* entries, and after n appends each holds exactly the most recent
\* min(n, 1000) appended values in append order.
C7_HistoriesHoldMostRecent ==
    /\ Len(temperatureHistory_) = (IF hPolls < 1000 THEN hPolls ELSE 1000)
    /\ \A i \in 1..Len(temperatureHistory_) :
          temperatureHistory_[i] =
              simulateTemperature(((hPolls - Len(temperatureHistory_)) + (i - 1)) + hPhase)
    /\ Len(thermalHistory_) = (IF hProofs < 1000 THEN hProofs ELSE 1000)
    /\ \A i \in 1..Len(thermalHistory_) :
          thermalHistory_[i] = ThermalProofOf((hProofs - Len(thermalHistory_)) + (i - 1))

\* both histories have been appended to more than 1000 times
C7_Witness ==
    /\ hPolls > 1000 /\ Len(temperatureHistory_) = 1000
    /\ hProofs > 1000 /\ Len(thermalHistory_) = 1000

----------------------------------------------------------------------------
(* Properties of the NPU integration (SpecNPU) *)

\* C9: for every valid input tensor executeConvolution succeeds and yields a
\* valid output tensor in every state reachable after MobileXMiner::initialize().
C9_ValidInputSucceeds ==
    (npuLastExec.called /\ npuLastExec.inputValid) =>
        (npuLastExec.ok /\ isValid(npuLastExec.out))

\* C10: once a platform inference has failed, usesFallback stays true and no
\* later executeConvolution call invokes the platform backend, until
\* shutdown() or a new initializeNNAPI().
C10_FallbackIsSticky ==
    [][ (npuPlatformFailed /\ npuPlatformFailed') =>
            /\ usesFallback_ /\ usesFallback_'
            /\ npuOps' # npuOps => ~npuLastExec'.invokedPlatform ]_vars

\* a call made after the platform failed, with the platform adapter still
\* initialised, that did not reach the platform
C10_Witness ==
    /\ npuPlatformFailed
    /\ isNPUAvailable
    /\ npuOps >= 2
    /\ npuLastExec.called /\ ~npuLastExec.invokedPlatform

\* C31: after any sequence of executeConvolution calls the totalOps of
\* getAverageMetrics() equals the number of convolution operations the
\* backends executed so far, however the calls are spaced in time.
C31_TotalOpsCountsEveryOp ==
    aggregateOperations = primaryOperations + fallbackOperations

----------------------------------------------------------------------------
(* Properties of concurrent mining threads (SpecNpuThreads) *)

\* C11: at most one thread at a time is inside the platform backend's
\* executeConvolution.
C11_PlatformBackendSerialized ==
    Cardinality({w \in Workers : InPlatformBackend(w)}) <= 1

----------------------------------------------------------------------------
(* Properties of the heterogeneous scheduler (SpecScheduler) *)

\* C19: after any sequence of configureHeterogeneousCores, reduceIntensity,
\* increaseIntensity and shutdown with any arguments, the number of active
\* cores is at most CoreTopology.total and only ids below total are active.
C19_ActiveWithinTopology ==
    /\ Cardinality(activeCores_) <= topology_.totalCores
    /\ \A i \in activeCores_ : 0 <= i /\ i < topology_.totalCores

\* cores were activated with arguments above the core count and the
\* intensity was raised afterwards
C19_Witness ==
    /\ topology_.totalCores = 4
    /\ Cardinality(activeCores_) = 4
    /\ currentIntensity_ > 0
    /\ schedLastOp.op = "increaseIntensity"

\* the first min(count, Len(ids)) entries of an id list
FirstIds(ids, count) ==
    {ids[j] : j \in 1..(IF count < Len(ids) THEN count ELSE Len(ids))}

\* C20: immediately after configureHeterogeneousCores(b, l), getCoreState()
\* has bit i set (i < 32) iff core i is among the first min(b, #big ids) big
\* core ids or the first min(l, #little ids) little core ids.
C20_BitmapReflectsConfigure ==
    schedLastOp.op = "configure" =>
        getCoreState = {i \in 0..31 :
                           \/ i \in FirstIds(topology_.bigCoreIds, schedLastOp.big)
                           \/ i \in FirstIds(topology_.littleCoreIds, schedLastOp.little)}

\* a configure call on 33 cores that asks for more big cores than exist and
\* for two little cores
C20_Witness ==
    /\ schedLastOp = [op |-> "configure", big |-> 40, little |-> 2]
    /\ topology_.totalCores = 33
    /\ topology_.littleCores = 16
    /\ getCoreState = {0, 1} \cup (16..31)

\* C29: every battery level stored is in [0, 100] and every temperature the
\* power controller and the thermal monitor store is in [10, 100] degrees,
\* whatever integers the sysfs files hold.
C29_ReadingsWithinRange ==
    /\ batteryLevel_ \in 0..100
    /\ pm_currentTemp_ \in 10000..100000
    /\ tm_currentTemp_ \in 10000..100000

\* C30: in the sequence of logged permission changes each entry's old value
\* equals the previous entry's new value, under every interleaving of
\* updatePowerState() and setMiningAllowed().
C30_LoggedTransitionsChain ==
    \A i \in 2..Len(pmLog) : pmLog[i].old = pmLog[i - 1].new

\* a startMining call on a live engine
StartMiningCall ==
    /\ jniCalls' = jniCalls + 1
    /\ jniLast'.op = "startMining"
    /\ jniLast'.minerPtr # 0

\* the (big, little) tuple of section 4.5: both counts are this number
IntensityTuple(intensity) ==
    CASE intensity = LIGHT -> 2
      [] intensity = MEDIUM -> 4
      [] intensity = FULL -> 8
      [] OTHER -> 0

\* the activation of the given scheduler state after configure(k, k)
ConfiguredFor(intensity) ==
    configureHeterogeneousCores({}, activeCoresSize, topology_,
                                IntensityTuple(intensity), IntensityTuple(intensity))

\* C21 as stated: every startMining(intensity) call that returns true leaves
\* the schedulers configured with the tuple of that intensity, also when
\* mining was already running, and a DISABLED request leaves the activation
\* at (0,0) and mining off.
C21_StartLeavesIntensityTuple ==
    [][StartMiningCall =>
          /\ jniLast'.num = 1 =>
                /\ activeCores_' = ConfiguredFor(jniLast'.intensity)
                /\ engineActiveCores' = ConfiguredFor(jniLast'.intensity)
          /\ jniLast'.intensity = DISABLED =>
                /\ engineActiveCores' = {}
                /\ ~is_mining_']_vars

\* C21 for calls made while mining is off: LIGHT, MEDIUM and FULL return true
\* and leave both schedulers configured with (2,2), (4,4), (8,8) and mining
\* on; any other intensity returns false with the engine's activation at
\* (0,0), the miner's untouched and mining off. A call made while mining is
\* running returns true and changes neither activation nor the mining flags.
C21_StartWhileOffConfiguresTuple ==
    [][StartMiningCall =>
          IF is_mining_
          THEN /\ jniLast'.num = 1
               /\ UNCHANGED <<activeCores_, engineActiveCores, is_mining_, mining_,
                              current_intensity_>>
          ELSE IF jniLast'.intensity \in {LIGHT, MEDIUM, FULL}
          THEN /\ jniLast'.num = 1
               /\ activeCores_' = ConfiguredFor(jniLast'.intensity)
               /\ engineActiveCores' = ConfiguredFor(jniLast'.intensity)
               /\ is_mining_' /\ mining_'
          ELSE /\ jniLast'.num = 0
               /\ engineActiveCores' = {}
               /\ UNCHANGED activeCores_
               /\ ~is_mining_' /\ ~mining_']_vars

\* mining started at LIGHT on an engine that mined at FULL before
C21_Witness ==
    /\ jniLast.op = "startMining"
    /\ jniLast.minerPtr # 0
    /\ jniLast.intensity = LIGHT
    /\ jniLast.num = 1
    /\ is_mining_
    /\ Cardinality(activeCores_) = 4
    /\ jniCalls = 4

\* C22: reduceIntensity() turns exactly one active core off whenever more than
\* one core is active, increaseIntensity() turns exactly one inactive core on
\* whenever an inactive core exists, and neither changes the active-core set
\* by more than one core.
C22_IntensityStepsOneCore ==
    [][/\ (HsReduceIntensity /\ getActiveCores > 1)
            => /\ activeCores_' \subseteq activeCores_
               /\ Cardinality(activeCores_') = getActiveCores - 1
       /\ (HsIncreaseIntensity /\ getActiveCores < activeCoresSize)
            => /\ activeCores_ \subseteq activeCores_'
               /\ Cardinality(activeCores_') = getActiveCores + 1
       /\ (HsReduceIntensity \/ HsIncreaseIntensity)
            => Cardinality((activeCores_ \ activeCores_') \cup (activeCores_' \ activeCores_)) <= 1
      ]_vars

\* C23: a reduceIntensity() or increaseIntensity() call made with at least one
\* active core leaves at least one active core.
C23_NeverZeroActiveCores ==
    [][((HsReduceIntensity \/ HsIncreaseIntensity) /\ getActiveCores >= 1)
          => Cardinality(activeCores_') >= 1]_vars

\* reduceIntensity() has run down to intensity 0 on a scheduler of several
\* cores and one core is still active
C23_Witness ==
    /\ schedLastOp.op = "reduceIntensity"
    /\ currentIntensity_ = 0
    /\ activeCoresSize >= 4
    /\ Cardinality(activeCores_) = 1

\* C24: runOnBigCores and runOnLittleCores run the work exactly once on every
\* path, return false exactly when setCPUAffinity was called and did not bind
\* the thread, and leave the activation vector as it was.
C24_RunsWorkOnceAndReportsBinding ==
    [][(HsRunOnBigCores \/ HsRunOnLittleCores)
          => /\ runLast'.executed = 1
             /\ (runLast'.result = FALSE) <=> (runLast'.attempted /\ ~runLast'.bound)
             /\ (runLast'.op = "runOnBigCores" /\ topology_.bigCoreIds = <<>>)
                   => (runLast'.result /\ ~runLast'.attempted)
             /\ (runLast'.op = "runOnLittleCores" /\ topology_.littleCoreIds = <<>>)
                   => (runLast'.result /\ ~runLast'.attempted)
             /\ activeCores_' = activeCores_
             /\ activeCoresSize' = activeCoresSize]_vars

\* a denied binding to the big cores while cores are active
C24_Witness ==
    /\ runLast.op = "runOnBigCores"
    /\ schedLastOp.op = "runOnBigCores"
    /\ runLast.attempted
    /\ ~runLast.result
    /\ runLast.executed = 1
    /\ activeCores_ # {}

\* C25: when runOnBigCores or runOnLittleCores returns, the CPU affinity of
\* the calling thread is what it was before the call.
C25_AffinityRestored ==
    [][(HsRunOnBigCores \/ HsRunOnLittleCores) => threadAffinity' = threadAffinity]_vars

----------------------------------------------------------------------------
(* Properties of the preprocess stage (SpecHash) *)

\* the XOR of the input bytes at positions j, j + 32, j + 64, ... (1-based)
RECURSIVE XorEvery32(_, _)
XorEvery32(data, j) ==
    IF j > Len(data) THEN 0 ELSE Xor(data[j], XorEvery32(data, j + 32))

\* C33: for every input byte sequence the NEON path of vectorHash and
\* scalarHash return the same 32 bytes, the XOR of input byte j into
\* result[j mod 32] starting from 32 zero bytes.
C33_NeonEqualsScalarFold ==
    vhNeon # <<>> =>
        /\ vhNeon = vhScalar
        /\ vhScalar = [k \in 1..32 |-> XorEvery32(vhData, k)]

\* an input of three chunks and a remainder that folds onto itself
C33_Witness ==
    /\ vhNeon # <<>>
    /\ Len(vhData) >= 48
    /\ Len(vhData) % 16 # 0
    /\ vhData[1] # vhData[33]
    /\ vhNeon[1] = Xor(vhData[1], vhData[33])

----------------------------------------------------------------------------
(* Properties of computeMobileXHash on one thread (SpecMiner) *)

\* C12: computeMobileXHash returns exactly 32 bytes for every header in every
\* miner state; without a RandomX VM it returns 32 zero bytes, leaves the
\* hash counter unchanged and runs no NPU step; the steps of a call only run
\* while the VM exists.
C12_HashIsTotal32Bytes ==
    /\ mxCall.returned =>
          /\ mxCall.result.len = 32
          /\ ~mxCall.vm =>
                /\ mxCall.result = ZeroHash
                /\ hashesCompleted_ = mxCall.c0
                /\ ~mxCall.ranNpu
                /\ mxCall.trace = <<>>
    /\ mxPc \in {"preprocess", "inner", "mix", "count", "decide", "npu"} => randomxVM_

\* a hash asked for after close(), when earlier hashes had been counted
C12_Witness ==
    /\ mxCall.returned
    /\ ~mxCall.vm
    /\ ~npu_
    /\ hashesCompleted_ > 0
    /\ mxCall.result = ZeroHash

\* C13: with the NPU enabled, a call runs the NPU step iff the counter value
\* at the start of the call is a multiple of 150.
C13_NpuStepIffStartCounterMultiple ==
    (mxCall.returned /\ mxCall.vm /\ mxCall.npuEnabled) =>
        (mxCall.ranNpu <=> (mxCall.c0 % 150 = 0))

\* C14: within one call the steps occur in the order preprocess, inner hash,
\* mobile mix, optional NPU step, counter increment.
C14_CounterIncrementedLast ==
    (mxCall.returned /\ mxCall.vm) =>
        mxCall.trace \in
            { <<"preprocess", "inner hash", "mobile mix", "npu decision", "counter increment">>,
              <<"preprocess", "inner hash", "mobile mix", "npu decision", "npu step",
                "counter increment">> }

\* C15: two independently initialised miners given the same header return
\* the same digest.
C15_DigestStableAcrossRuns ==
    (mxCall.returned /\ mxCall.vm /\ mxGolden.recorded /\ mxCall.header = mxGolden.header) =>
        mxCall.result = mxGolden.result

\* a call other than createMiner made with the zero handle
ZeroHandleCall ==
    /\ jniCalls' = jniCalls + 1
    /\ jniLast'.minerPtr = 0
    /\ jniLast'.op # "createMiner"

\* the engine and everything it owns
EngineState ==
    <<liveMiner, is_mining_, current_intensity_, engineActiveCores, npu_available_,
      mxVars, engineVars, npuVars, hsVars, tvVars>>

C27_NeverStartedRateIsZero ==
    startTime_ = 0 =>
        \A now \in SteadyReadings :
            /\ getHashRate(now).num = 0
            /\ getRandomXHashRate(now).num = 0
            /\ getMobileXHashRate(now).num = 0

\* C28: after stopMining() has returned no later hash is computed and the
\* hash counter stops advancing until the next startMining.
C28_NoHashAfterStop ==
    mxCall.afterStop => (mxCall.trace = <<>> /\ hashesCompleted_ = mxCall.c0)

\* C38: when the CPU fallback serves the NPU step, the skip runNPUStep adds to
\* the counter is 0, so the call that ran the step leaves the counter exactly
\* one above the value it had when the call began.
C38_FallbackStepAddsNoSkip ==
    [][ (/\ mxPc = "npu"
         /\ npuOps' = npuOps + 1
         /\ npuLastExec'.ok
         /\ ~npuLastExec'.invokedPlatform)
            => /\ hashesCompleted_' = hashesCompleted_
               /\ hashesCompleted_' = mxCall.c0 + 1 ]_vars

C38_Witness ==
    /\ mxCall.returned /\ mxCall.ranNpu
    /\ npuLastExec.ok /\ ~npuLastExec.invokedPlatform
    /\ npuLastExec.out.shape = <<32, 32, 1>>
    /\ hashesCompleted_ = npuInterval_

----------------------------------------------------------------------------
(* Properties of computeMobileXHash on several threads (SpecHashThreads) *)

\* C37: with several threads calling computeMobileXHash on one miner (NPU
\* enabled, skip 0) the number of NPU steps executed equals the number of
\* multiples of npuInterval the shared counter has reached.
C37_OneNpuStepPerMultiple ==
    (\A w \in Workers : mtPc[w] = "idle") =>
        npuSteps = hashesCompleted_ \div npuInterval_

----------------------------------------------------------------------------
(* Properties of thermal proofs (SpecProof) *)

\* C16: validating the proof generateThermalProof(P) returned, against the
\* same header P, returns true for every header and every tolerance >= 0,
\* whatever the two runs measure.
C16_GenerateThenValidateAccepts ==
    (/\ tvLast.op = "validate"
     /\ tvIssued.valid
     /\ tvLast.thermalProof = tvIssued.value
     /\ tvLast.header = tvIssued.header)
        => tvLast.accepted

\* C17: a proof whose measured frequency lies outside baseFrequency plus or
\* minus tolerancePercent is never accepted by validateThermalProof.
C17_OutOfBandFrequencyRejected ==
    (/\ tvLast.op = "validate"
     /\ tvLast.accepted
     /\ tvIssued.valid
     /\ tvLast.thermalProof = tvIssued.value)
        => /\ tvIssued.frequency * 100 >= baseFrequency_ * (100 - tolerancePercent_)
           /\ tvIssued.frequency * 100 <= baseFrequency_ * (100 + tolerancePercent_)

\* C39: validateThermalProof leaves the thermal history unchanged: the
\* history holds one entry per generateThermalProof call made by the caller
\* and none for validations.
C39_ValidationLeavesHistory ==
    [][ (tvOps' = tvOps + 1 /\ tvLast'.op = "validate")
            => thermalHistory_' = thermalHistory_ ]_vars

\* C40: the encoded proof is bound to the header: two proofs generated for
\* headers of the same length and different content, with the same measured
\* cycle delta, frequency and temperature, have different encoded values.
C40_ProofBoundToHeader ==
    \A i, j \in 1..Len(thermalHistory_) :
        LET p == thermalHistory_[i]
            q == thermalHistory_[j]
        IN  (/\ p.workHash.input # q.workHash.input
             /\ Len(p.workHash.input) = Len(q.workHash.input)
             /\ p.cycleCount = q.cycleCount
             /\ p.frequency = q.frequency
             /\ p.temperature = q.temperature)
                => \A r, s \in tvSha :
                       (r.data = PackedProof(p) /\ s.data = PackedProof(q))
                           => r.value # s.value

----------------------------------------------------------------------------
(* Properties of cheat detection (SpecDetect) *)

\* C18: detectThermalCheating returns exactly the indices whose temperature
\* z-score exceeds the threshold, in increasing order: nothing for fewer than
\* 10 proofs or for equal temperatures, the one index of a single sample at
\* 60 among eleven at 40 for threshold 2 and nothing for threshold 10; the
\* proofs and the history are left as they were.
C18_OutliersAreZScoreAboveThreshold ==
    tvDetect.called =>
        LET proofs == tvDetect.proofs
            n == Len(proofs)
            out == tvDetect.outliers
            hot == {i \in 1..n : proofs[i].temperature = HotSample}
            sum == SumTemperatures(proofs, 1)
            squares == SumSquares(proofs, 1, sum)
        IN /\ n < 10 => out = <<>>
           /\ (\A i, j \in 1..n : proofs[i].temperature = proofs[j].temperature)
                 => out = <<>>
           /\ n >= 10 =>
                 /\ {out[k] : k \in 1..Len(out)}
                       = {i - 1 : i \in {j \in 1..n : zScoreAbove(proofs, j, tvDetect.threshold, sum, squares)}}
                 /\ \A k \in 1..(Len(out) - 1) : out[k] < out[k + 1]
           /\ (n = 12 /\ Cardinality(hot) = 1) =>
                 out = IF tvDetect.threshold = 2
                       THEN <<(CHOOSE i \in hot : TRUE) - 1>>
                       ELSE <<>>
           /\ tvDetect.proofsAfter = proofs
           /\ thermalHistory_ = tvDetect.historyBefore

C18_Witness ==
    /\ tvDetect.called
    /\ Len(tvDetect.proofs) = 12
    /\ tvDetect.threshold = 2
    /\ tvDetect.proofs[12].temperature = 60
    /\ \A i \in 1..11 : tvDetect.proofs[i].temperature = 40
    /\ tvDetect.outliers = <<11>>

====
